---- MODULE Spec2Model ----
(***************************************************************************)
(* A model of the token cursor (src/src/lexer.rs), of the enum parsers     *)
(* built on it (src/src/cst/expressions.rs, src/src/items/qualifiers.rs,   *)
(* src/src/items/expressions/functions.rs, src/src/items/generics.rs), of *)
(* macro argument capture and expansion (src/src/items/macros.rs), of the  *)
(* formatting of lists and the regions of nodes                            *)
(* (src/src/items/generics.rs, src/src/items/module.rs) and of record      *)
(* access and update (src/src/items/expressions/records.rs).               *)
(*                                                                         *)
(* The cursor `index` is 0-based as in the Rust code: token i of the Rust  *)
(* vector is tokens[i + 1] here.                                           *)
(***************************************************************************)
EXTENDS Integers, Sequences, FiniteSets, TLC

VARIABLES
    tokens,      \* Lexer.tokens: the token vector
    created,     \* the vector Lexer::new was given (history)
    index,       \* Lexer.index: the cursor
    last_error,  \* the token reader's recorded deepest error
    last,        \* the last completed top-level call: what it got and returned
    run,         \* tokens returned by successful reads since the last rewind
    rewound,     \* the last call ended with the cursor rewound
    pc,          \* position of MacroArg::parse: idle, loop, done, error, panic
    arg_tokens,  \* MacroArg::parse: `tokens`, the captured argument
    level,       \* MacroArg::parse: `level`, the five counters
    hist,        \* MacroArg::parse: one record per loop iteration (history)
    define,      \* the macro definition an invocation is looked up to
    macro,       \* the Macro that Macro::parse built
    expansion,   \* the tokens Macro::expand returned
    node,        \* the node the last parse built, with its region
    fmt          \* the Formatter: its buffer, indent and options

macroVars == <<define, macro, expansion>>

layoutVars == <<node, fmt>>

vars == <<tokens, created, index, last_error, last, run, rewound, pc,
          arg_tokens, level, hist, define, macro, expansion, node, fmt>>

----------------------------------------------------------------------------
(* Bounds *)

\* longest token vector of the cursor specification
MaxTokens == 3
\* longest closure script (number of read_expect calls a closure makes)
MaxSteps == 2
\* largest n given to peek_tokens
MaxPeek == 2
\* longest token vector drawn freely for the parser specification
MaxParseTokens == 3
\* most phrases a macro argument text is put together from
MaxPhrases == 3

----------------------------------------------------------------------------
(* Tokens, results, errors *)

Token(k, p, x) == [kind |-> k, pos |-> p, expanded |-> x]

\* a token vector from a sequence of kinds, positions in source order
Lex(kinds) == [i \in 1..Len(kinds) |-> Token(kinds[i], i - 1, FALSE)]

NoError == [name |-> "", expected |-> "", position |-> 0]
UnexpectedEof == [name |-> "UnexpectedEof", expected |-> "", position |-> Len(tokens)]
UnexpectedToken(expected, token) ==
    [name |-> "UnexpectedToken", expected |-> expected, position |-> token.pos]
ClosureError == [name |-> "ClosureError", expected |-> "", position |-> 0]

\* Result<T>: Ok(val) or Err(err); Option<T>: Some(val) = Ok(val), None
Ok(v) == [ok |-> TRUE, val |-> v, flag |-> FALSE, err |-> NoError]
OkBool(b) == [ok |-> TRUE, val |-> <<>>, flag |-> b, err |-> NoError]
Err(e) == [ok |-> FALSE, val |-> <<>>, flag |-> FALSE, err |-> e]
None == [ok |-> FALSE, val |-> <<>>, flag |-> FALSE, err |-> NoError]

\* what a call leaves: the cursor, its return value, the tokens read_token
\* handed out on the way
Outcome(ix, res, reads) == [index |-> ix, res |-> res, reads |-> reads]

\* Expect::expect: a token kind, or "any" for every token
expect(expected, token) == expected = "any" \/ token.kind = expected

----------------------------------------------------------------------------
(* Lexer, src/src/lexer.rs *)

read_token_stay(ix) ==
    IF ix < Len(tokens)
    THEN Outcome(ix, Ok(<<tokens[ix + 1]>>), <<tokens[ix + 1]>>)
    ELSE Outcome(ix, Err(UnexpectedEof), <<>>)

read_token_noguard(ix) ==
    IF ix < Len(tokens)
    THEN Outcome(ix + 1, Ok(<<tokens[ix + 1]>>), <<tokens[ix + 1]>>)
    ELSE Outcome(ix + 1, Err(UnexpectedEof), <<>>)

read_token(ix) ==
    IF ix < Len(tokens)
    THEN Outcome(ix + 1, Ok(<<tokens[ix + 1]>>), <<tokens[ix + 1]>>)
    ELSE Outcome(ix, Err(UnexpectedEof), <<>>)

read_expect(ix, expected) ==
    LET r == read_token(ix)
    IN  IF ~r.res.ok THEN r
        ELSE IF expect(expected, r.res.val[1]) THEN r
        ELSE [r EXCEPT !.res = Err(UnexpectedToken(expected, r.res.val[1]))]

\* with_transaction and with_peek entered with the cursor at `position`; r is
\* what the closure call f(self) left, run from that cursor
with_transaction_norestore(position, r) == r

with_transaction(position, r) ==
    IF r.res.ok THEN r ELSE [r EXCEPT !.index = position]

with_peek_onerror(position, r) ==
    IF r.res.ok THEN r ELSE [r EXCEPT !.index = position]

with_peek(position, r) == [r EXCEPT !.index = position]

expect_2tokens(ix, expected0, expected1) ==
    LET a == read_expect(ix, expected0)
        b == read_expect(a.index, expected1)
    IN  with_peek(ix,
            IF a.res.ok
            THEN Outcome(b.index, OkBool(b.res.ok), a.reads \o b.reads)
            ELSE Outcome(a.index, OkBool(FALSE), a.reads))

peek_token(ix) == with_peek(ix, read_token(ix))

\* (0..n).map(|_| read_token()).collect::<Result<Vec<_>>>(): reads until the
\* first error
RECURSIVE read_tokens(_, _, _)
read_tokens(ix, n, acc) ==
    IF n = 0 THEN Outcome(ix, Ok(acc), acc)
    ELSE LET r == read_token(ix)
         IN  IF r.res.ok THEN read_tokens(r.index, n - 1, acc \o r.reads)
             ELSE Outcome(r.index, r.res, acc)

peek_tokens(ix, n) == with_peek(ix, read_tokens(ix, n, <<>>))

eof(ix) ==
    LET r == peek_token(ix)
    IN  IF ~r.res.ok /\ r.res.err.name = "UnexpectedEof"
        THEN [r EXCEPT !.res = OkBool(TRUE)]
        ELSE IF ~r.res.ok THEN r
        ELSE [r EXCEPT !.res = OkBool(FALSE)]

\* Result::ok(): Ok(x) is Some(x), Err(_) is None
ok(r) == IF r.res.ok THEN r ELSE [r EXCEPT !.res = None]

try_peek_expect(ix, expected) ==
    ok(with_peek(ix, read_expect(ix, expected)))

try_read_expect_peek(ix, expected) ==
    ok(with_peek(ix, read_expect(ix, expected)))

try_read_expect(ix, expected) ==
    ok(with_transaction(ix, read_expect(ix, expected)))

----------------------------------------------------------------------------
(* The closures handed to with_transaction and with_peek: a script of      *)
(* read_expect calls and a verdict.  "prop" propagates the first error     *)
(* with `?` and returns Ok at the end; "ok" and "err" run every step,      *)
(* ignore their errors and return Ok, or an error of the closure's own.    *)

LexKinds == {"atom", "variable"}
Expected == {"atom", "any"}
Verdicts == {"prop", "ok", "err"}

SeqsUpTo(S, n) == UNION {[1..m -> S] : m \in 0..n}

Scripts == [steps : SeqsUpTo(Expected, MaxSteps), verdict : Verdicts]

RECURSIVE RunSteps(_, _, _, _)
RunSteps(steps, strict, ix, reads) ==
    IF steps = <<>> THEN Outcome(ix, Ok(reads), reads)
    ELSE LET r == read_expect(ix, Head(steps))
         IN  IF ~r.res.ok /\ strict
             THEN Outcome(r.index, r.res, reads \o r.reads)
             ELSE RunSteps(Tail(steps), strict, r.index, reads \o r.reads)

RunScript(s, ix) ==
    LET r == RunSteps(s.steps, s.verdict = "prop", ix, <<>>)
    IN  IF s.verdict = "err" THEN [r EXCEPT !.res = Err(ClosureError)] ELSE r

----------------------------------------------------------------------------
(* Maybe<T>, src/src/items/generics.rs.  T::parse is a closure script.     *)

PositionError == [name |-> "PositionError", expected |-> "", position |-> 0]

\* Lexer::parse::<T>(): T's parse routine inside a transaction; t is what
\* T::parse left, run from ix
parse(ix, t) == with_transaction(ix, t)

\* prev_token_end_position() and next_token_start_position(): they leave the
\* cursor alone; whether they succeed is an input
Maybe_parse(ix, t, prev_ok, next_ok) ==
    IF ~prev_ok \/ ~next_ok THEN Outcome(ix, Err(PositionError), <<>>)
    ELSE LET r == ok(parse(ix, t))
         IN  [r EXCEPT !.res = [Ok(r.res.val) EXCEPT !.flag = r.res.ok]]

----------------------------------------------------------------------------
(* The token reader's error record and the parsers built on it.  An        *)
(* outcome of a parser carries, besides the cursor and the value, the      *)
(* recorded error it leaves and, for an enum, the variant chosen and the   *)
(* attempts made.                                                          *)

Parsed(ix, le, res, reads, variant, attempts) ==
    [index |-> ix, res |-> res, reads |-> reads, last_error |-> le,
     variant |-> variant, attempts |-> attempts]

Unreachable == [name |-> "panic: unreachable", expected |-> "", position |-> 0]

\* the deeper of the recorded error and a new one; which one a tie keeps is
\* an input
deeper(le, e, tie) ==
    IF \/ le = None
       \/ le.err.position < e.position
       \/ (tie /\ le.err.position = e.position)
    THEN Err(e) ELSE le

\* try_parse::<T>(): T's parse routine; a failure rolls the cursor back to
\* ix, is recorded when it is the deepest so far, and gives None.  t is what
\* T::parse left, run from ix.
try_parse(ix, t, tie) ==
    IF t.res.ok THEN t
    ELSE [t EXCEPT !.index = ix, !.res = None,
                   !.last_error = deeper(t.last_error, t.res.err, tie)]

\* a token item (Atom, Variable, String, a symbol or a keyword): one token
\* of that kind
Token_parse(ix, le, kind) ==
    LET r == read_expect(ix, kind)
    IN  Parsed(r.index, le, r.res, r.reads, "", <<>>)

\* one attempt of an enum parse: the variant, where the cursor was when it
\* began, what its parse routine returned and where it stopped
Attempt(variant, start, t) ==
    [variant |-> variant, start |-> start, ok |-> t.res.ok,
     err |-> t.res.err, stop |-> t.index]

\* Err(tokens.take_last_error().expect("unreachable")): the recorded error
\* is returned and the record is emptied
take_last_error(t, ix, attempts) ==
    IF t.last_error = None
    THEN Parsed(ix, None, Err(Unreachable), <<>>, "", attempts)
    ELSE Parsed(ix, None, Err(t.last_error.err), <<>>, "", attempts)

Expr_parse_lasterr(ix, le, tie) ==
    LET pa == Token_parse(ix, le, "atom")
        a  == try_parse(ix, pa, tie)
        pv == Token_parse(a.index, a.last_error, "variable")
        v  == try_parse(a.index, pv, tie)
        ps == Token_parse(v.index, v.last_error, "string")
        s  == try_parse(v.index, ps, tie)
        at1 == <<Attempt("Atom", ix, pa)>>
        at2 == Append(at1, Attempt("Variable", a.index, pv))
        at3 == Append(at2, Attempt("String", v.index, ps))
    IN  IF a.res.ok THEN [a EXCEPT !.variant = "Atom", !.attempts = at1]
        ELSE IF v.res.ok THEN [v EXCEPT !.variant = "Variable", !.attempts = at2]
        ELSE IF s.res.ok THEN [s EXCEPT !.variant = "String", !.attempts = at3]
        ELSE Parsed(s.index, s.last_error, Err(ps.res.err), <<>>, "", at3)

Expr_parse_reordered(ix, le, tie) ==
    LET pv == Token_parse(ix, le, "variable")
        v  == try_parse(ix, pv, tie)
        pa == Token_parse(v.index, v.last_error, "atom")
        a  == try_parse(v.index, pa, tie)
        ps == Token_parse(a.index, a.last_error, "string")
        s  == try_parse(a.index, ps, tie)
        at1 == <<Attempt("Variable", ix, pv)>>
        at2 == Append(at1, Attempt("Atom", v.index, pa))
        at3 == Append(at2, Attempt("String", a.index, ps))
    IN  IF v.res.ok THEN [v EXCEPT !.variant = "Variable", !.attempts = at1]
        ELSE IF a.res.ok THEN [a EXCEPT !.variant = "Atom", !.attempts = at2]
        ELSE IF s.res.ok THEN [s EXCEPT !.variant = "String", !.attempts = at3]
        ELSE take_last_error(s, s.index, at3)

Expr_parse(ix, le, tie) ==
    LET pa == Token_parse(ix, le, "atom")
        a  == try_parse(ix, pa, tie)
        pv == Token_parse(a.index, a.last_error, "variable")
        v  == try_parse(a.index, pv, tie)
        ps == Token_parse(v.index, v.last_error, "string")
        s  == try_parse(v.index, ps, tie)
        at1 == <<Attempt("Atom", ix, pa)>>
        at2 == Append(at1, Attempt("Variable", a.index, pv))
        at3 == Append(at2, Attempt("String", v.index, ps))
    IN  IF a.res.ok THEN [a EXCEPT !.variant = "Atom", !.attempts = at1]
        ELSE IF v.res.ok THEN [v EXCEPT !.variant = "Variable", !.attempts = at2]
        ELSE IF s.res.ok THEN [s EXCEPT !.variant = "String", !.attempts = at3]
        ELSE take_last_error(s, s.index, at3)

----------------------------------------------------------------------------
(* #[derive(Parse)] and the generic items, as an interpreter of grammars:  *)
(* a struct parses its fields in declaration order, an enum tries its      *)
(* variants in declaration order.                                          *)

Tok(k) == [t |-> "tok", k |-> k]
ExprG == [t |-> "expr"]
Struct(fields) == [t |-> "struct", xs |-> fields]
MaybeG(x) == [t |-> "maybe", x |-> x]
Enum(variants) == [t |-> "enum", vs |-> variants]
NonEmptyItems(item, delimiter) == [t |-> "items", x |-> item, d |-> delimiter]
Variant(name, g) == [name |-> name, g |-> g]

RECURSIVE Parse(_, _, _, _)
RECURSIVE Struct_parse(_, _, _, _)
RECURSIVE Enum_parse(_, _, _, _, _, _)
RECURSIVE NonEmptyItems_parse(_, _, _, _, _)

Parse(g, ix, le, tie) ==
    CASE g.t = "tok" -> Token_parse(ix, le, g.k)
      [] g.t = "expr" -> Expr_parse(ix, le, tie)
      [] g.t = "struct" -> Struct_parse(g.xs, ix, le, tie)
      [] g.t = "maybe" -> Maybe_parse(ix, Parse(g.x, ix, le, tie), TRUE, TRUE)
      [] g.t = "enum" -> Enum_parse(g.vs, 1, ix, le, tie, <<>>)
      [] g.t = "items" ->
            LET first == parse(ix, Parse(g.x, ix, le, tie))
            IN  IF ~first.res.ok THEN first
                ELSE NonEmptyItems_parse(g, first.index, first.last_error, tie,
                                         first.reads)

\* a derived struct: each field with `?`, in declaration order
Struct_parse(fields, ix, le, tie) ==
    IF fields = <<>> THEN Parsed(ix, le, Ok(<<>>), <<>>, "", <<>>)
    ELSE LET h == parse(ix, Parse(Head(fields), ix, le, tie))
         IN  IF ~h.res.ok THEN [h EXCEPT !.variant = "", !.attempts = <<>>]
             ELSE LET rest == Struct_parse(Tail(fields), h.index, h.last_error, tie)
                  IN  [rest EXCEPT !.reads = h.reads \o rest.reads]

\* a derived enum: variant k and the later ones, each under try_parse from
\* the cursor the previous attempt left; when none is left, the recorded
\* error
Enum_parse(variants, k, ix, le, tie, attempts) ==
    IF k > Len(variants)
    THEN take_last_error([last_error |-> le], ix, attempts)
    ELSE LET raw == Parse(variants[k].g, ix, le, tie)
             t == try_parse(ix, raw, tie)
             made == Append(attempts, Attempt(variants[k].name, ix, raw))
         IN  IF t.res.ok
             THEN [t EXCEPT !.variant = variants[k].name, !.attempts = made]
             ELSE Enum_parse(variants, k + 1, t.index, t.last_error, tie, made)

\* NonEmptyItems::parse after an item: while a delimiter parses, another
\* item is mandatory
NonEmptyItems_parse(g, ix, le, tie, reads) ==
    LET delimiter == ok(parse(ix, Parse(g.d, ix, le, tie)))
        item == parse(delimiter.index,
                      Parse(g.x, delimiter.index, delimiter.last_error, tie))
    IN  IF ~delimiter.res.ok
        THEN Parsed(ix, delimiter.last_error, Ok(<<>>), reads, "", <<>>)
        ELSE IF ~item.res.ok
        THEN [item EXCEPT !.reads = reads \o delimiter.reads \o item.reads,
                          !.variant = "", !.attempts = <<>>]
        ELSE NonEmptyItems_parse(g, item.index, item.last_error, tie,
                                 reads \o delimiter.reads \o item.reads)

(* src/src/items/qualifiers.rs *)
Generator == Struct(<<ExprG, Tok("<-"), ExprG>>)
BitstringGenerator == Struct(<<ExprG, Tok("<="), ExprG>>)
Qualifier ==
    Enum(<<Variant("Generator", Generator),
           Variant("BitstringGenerator", BitstringGenerator),
           Variant("Filter", ExprG)>>)

(* src/src/items/expressions/functions.rs.  AtomLikeExpr, IntegerLikeExpr, *)
(* Params, WithGuard and Body are reduced to the shapes the tests of that  *)
(* file use: a name or a parenthesized name, no guard, one body expression *)
Parenthesized(x) == Struct(<<Tok("("), x, Tok(")")>>)
AtomLikeExpr ==
    Enum(<<Variant("Atom", Tok("atom")), Variant("Variable", Tok("variable")),
           Variant("Parenthesized", Parenthesized(ExprG))>>)
IntegerLikeExpr ==
    Enum(<<Variant("Integer", Tok("integer")), Variant("Variable", Tok("variable")),
           Variant("Parenthesized", Parenthesized(ExprG))>>)
Fun == Struct(<<Tok("fun")>>)
Null == Struct(<<>>)
FunctionClause(Name) ==
    Struct(<<Name, Parenthesized(MaybeG(ExprG)), Tok("->"), ExprG>>)
FunctionClauses(Name) == NonEmptyItems(FunctionClause(Name), Tok(";"))
DefinedFunctionExpr ==
    Struct(<<Fun, MaybeG(Struct(<<AtomLikeExpr, Tok(":")>>)), AtomLikeExpr,
             Tok("/"), IntegerLikeExpr>>)
AnonymousFunctionExpr == Struct(<<Fun, FunctionClauses(Null), Tok("end")>>)
NamedFunctionExpr ==
    Struct(<<Fun, FunctionClauses(Tok("variable")), Tok("end")>>)

FunctionExpr ==
    Enum(<<Variant("Defined", DefinedFunctionExpr),
           Variant("Anonymous", AnonymousFunctionExpr),
           Variant("Named", NamedFunctionExpr)>>)

----------------------------------------------------------------------------
(* The cursor specification: any sequence of calls on one Lexer *)

ZeroLevel == [paren |-> 0, brace |-> 0, square |-> 0, bits |-> 0, block |-> 0]

\* Option<Vec<VariableToken>>::None: a macro defined without a parameter list
NoVariables == [some |-> FALSE, names |-> <<>>]

NoDefine == [variables |-> NoVariables, replacement |-> <<>>]

NoSpan == [start |-> 0, end |-> 0]

NoMacro == [has_args |-> FALSE, args |-> <<>>, span |-> NoSpan]

NoNode == [kind |-> "none", start |-> 0, end |-> 0, children |-> <<>>]

NoFormatter ==
    [buf |-> <<>>, indent |-> 0, pending |-> "none", max_columns |-> 0,
     multiline |-> FALSE]

NoCall ==
    [op |-> "new", entry |-> 0, ret |-> None, fidx |-> 0, fret |-> None,
     expected |-> <<>>, n |-> 0]

InitWith(streams) ==
    /\ tokens \in streams
    /\ created = tokens
    /\ index = 0
    /\ last_error = None
    /\ last = NoCall
    /\ run = <<>>
    /\ rewound = FALSE
    /\ pc = "idle"
    /\ arg_tokens = <<>>
    /\ level = ZeroLevel
    /\ hist = <<>>
    /\ define = NoDefine
    /\ macro = NoMacro
    /\ expansion = <<>>
    /\ node = NoNode
    /\ fmt = NoFormatter

LexStreams == {Lex(ks) : ks \in SeqsUpTo(LexKinds, MaxTokens)}

Init == InitWith(LexStreams)

\* a call `op` that left `out`; `f` is what the closure inside it left (the
\* call's own outcome when it takes no closure)
Call(op, out, f, expected, n) ==
    /\ index' = out.index
    /\ last' = [op |-> op, entry |-> index, ret |-> out.res, fidx |-> f.index,
                fret |-> f.res, expected |-> expected, n |-> n]
    /\ rewound' = (out.index # index + Len(out.reads))
    /\ run' = (IF rewound THEN <<>> ELSE run) \o out.reads
    /\ UNCHANGED <<tokens, created, last_error, pc, arg_tokens, level, hist>>
    /\ UNCHANGED macroVars
    /\ UNCHANGED layoutVars

ReadToken ==
    LET r == read_token(index) IN Call("read_token", r, r, <<>>, 0)

ReadExpect ==
    \E e \in Expected :
        LET r == read_expect(index, e) IN Call("read_expect", r, r, <<e>>, 0)

Eof ==
    LET r == eof(index) IN Call("eof", r, peek_token(index), <<>>, 0)

PeekToken ==
    LET r == peek_token(index)
    IN  Call("peek_token", r, read_token(index), <<>>, 0)

PeekTokens ==
    \E n \in 0..MaxPeek :
        LET r == peek_tokens(index, n)
        IN  Call("peek_tokens", r, read_tokens(index, n, <<>>), <<>>, n)

Expect2Tokens ==
    \E e0 \in Expected, e1 \in Expected :
        LET r == expect_2tokens(index, e0, e1)
        IN  Call("expect_2tokens", r, RunScript([steps |-> <<e0, e1>>, verdict |-> "prop"], index),
                 <<e0, e1>>, 0)

TryPeekExpect ==
    \E e \in Expected :
        LET r == try_peek_expect(index, e)
        IN  Call("try_peek_expect", r, read_expect(index, e), <<e>>, 0)

TryReadExpect ==
    \E e \in Expected :
        LET r == try_read_expect(index, e)
        IN  Call("try_read_expect", r, read_expect(index, e), <<e>>, 0)

WithTransaction ==
    \E s \in Scripts :
        LET r == with_transaction(index, RunScript(s, index))
        IN  Call("with_transaction", r, RunScript(s, index), <<>>, 0)

WithPeek ==
    \E s \in Scripts :
        LET r == with_peek(index, RunScript(s, index))
        IN  Call("with_peek", r, RunScript(s, index), <<>>, 0)

MaybeParse ==
    \/ \E s \in Scripts :
        LET r == Maybe_parse(index, RunScript(s, index), TRUE, TRUE)
        IN  Call("Maybe_parse", r, RunScript(s, index), <<>>, 0)
    \/ \E prev_ok \in BOOLEAN :
        LET r == Maybe_parse(index, RunScript(
                     [steps |-> <<"any">>, verdict |-> "prop"], index),
                     prev_ok, ~prev_ok)
        IN  Call("Maybe_parse", r, Outcome(index, None, <<>>), <<>>, 1)

Next ==
    \/ ReadToken
    \/ ReadExpect
    \/ Eof
    \/ PeekToken
    \/ PeekTokens
    \/ Expect2Tokens
    \/ TryPeekExpect
    \/ TryReadExpect
    \/ WithTransaction
    \/ WithPeek
    \/ MaybeParse

Spec == Init /\ [][Next]_vars

----------------------------------------------------------------------------
(* MacroArg::parse, src/src/items/macros.rs *)

\* ts.peek::<Either<CommaSymbol, CloseParenSymbol>>()
peek_Either_Comma_CloseParen(ix) ==
    try_peek_expect(ix, ",").res.ok \/ try_peek_expect(ix, ")").res.ok

\* ts.peek::<OpenParenSymbol>()
peek_OpenParen(ix) == try_peek_expect(ix, "(").res.ok

\* ts.peek::<(Token, OpenParenSymbol)>()
peek_Token_OpenParen(ix) == expect_2tokens(ix, "any", "(").res.flag

is_macro_expanded_never(token) == FALSE

\* ts.macros().contains_key(&token.start_position())
is_macro_expanded(token) == token.expanded

Todo == [name |-> "panic: not yet implemented", expected |-> "", position |-> 0]

\* a closer: todo!() when its counter is zero, else one less
Close(lv, field) ==
    IF lv[field] = 0 THEN [level |-> lv, panic |-> TRUE]
    ELSE [level |-> [lv EXCEPT ![field] = @ - 1], panic |-> FALSE]

Open(lv, field) == [level |-> [lv EXCEPT ![field] = @ + 1], panic |-> FALSE]

\* the `match &token` of one loop iteration; ix is the cursor after the token
Level_after_brace(lv, token, ix) ==
    CASE token.kind = "(" -> Open(lv, "paren")
      [] token.kind = ")" -> Close(lv, "paren")
      [] token.kind = "}" -> Close(lv, "brace")
      [] token.kind = "[" -> Open(lv, "square")
      [] token.kind = "]" -> Close(lv, "square")
      [] token.kind = "<<" -> Open(lv, "bits")
      [] token.kind = ">>" -> Close(lv, "bits")
      [] token.kind \in {"begin", "try", "case", "if"} -> Open(lv, "block")
      [] token.kind = "fun" ->
            IF peek_OpenParen(ix) \/ peek_Token_OpenParen(ix)
            THEN Open(lv, "block")
            ELSE [level |-> lv, panic |-> FALSE]
      [] token.kind = "end" -> Close(lv, "block")
      [] OTHER -> [level |-> lv, panic |-> FALSE]

Level_after(lv, token, ix) ==
    CASE token.kind = "(" -> Open(lv, "paren")
      [] token.kind = ")" -> Close(lv, "paren")
      [] token.kind = "{" -> Open(lv, "brace")
      [] token.kind = "}" -> Close(lv, "brace")
      [] token.kind = "[" -> Open(lv, "square")
      [] token.kind = "]" -> Close(lv, "square")
      [] token.kind = "<<" -> Open(lv, "bits")
      [] token.kind = ">>" -> Close(lv, "bits")
      [] token.kind \in {"begin", "try", "case", "if"} -> Open(lv, "block")
      [] token.kind = "fun" ->
            IF peek_OpenParen(ix) \/ peek_Token_OpenParen(ix)
            THEN Open(lv, "block")
            ELSE [level |-> lv, panic |-> FALSE]
      [] token.kind = "end" -> Close(lv, "block")
      [] OTHER -> [level |-> lv, panic |-> FALSE]

is_toplevel(lv) == lv = ZeroLevel

Captured(ix, res, captured, lv, iterations, at) ==
    [index |-> ix, res |-> res, tokens |-> captured, level |-> lv,
     hist |-> iterations, pc |-> at]

Iteration(token, before, after) ==
    [token |-> token, before |-> before, after |-> after]

\* the while loop of MacroArg::parse from cursor ix on: "done" with
\* Ok(Self { tokens }), "error" when ts.parse()? fails, "panic" at a todo!()
RECURSIVE MacroArg_parse(_, _, _, _)
MacroArg_parse(ix, captured, lv, iterations) ==
    IF ~(captured = <<>> \/ ~is_toplevel(lv) \/ ~peek_Either_Comma_CloseParen(ix))
    THEN Captured(ix, Ok(captured), captured, lv, iterations, "done")
    ELSE LET r == parse(ix, read_token(ix))
             token == r.res.val[1]
             after == Level_after(lv, token, r.index)
         IN  IF ~r.res.ok
             THEN Captured(r.index, r.res, captured, lv, iterations, "error")
             ELSE IF is_macro_expanded(token)
             THEN MacroArg_parse(r.index, Append(captured, token), lv,
                                 Append(iterations, Iteration(token, lv, lv)))
             ELSE IF after.panic
             THEN Captured(r.index, Err(Todo), captured, lv,
                           Append(iterations, Iteration(token, lv, lv)), "panic")
             ELSE MacroArg_parse(r.index, Append(captured, token), after.level,
                                 Append(iterations, Iteration(token, lv, after.level)))

----------------------------------------------------------------------------
(* The macro argument specification: the arguments of one invocation are   *)
(* captured one after another, as Items<MacroArg> does                     *)

Plain(kinds) == [i \in 1..Len(kinds) |-> [kind |-> kinds[i], expanded |-> FALSE]]
Expanded(kinds) == [i \in 1..Len(kinds) |-> [kind |-> kinds[i], expanded |-> TRUE]]

Phrases ==
    {Plain(<<k>>) : k \in {"(", ")", "{", "}", "[", "]", "<<", ">>", "begin",
                           "fun", "end", ",", "atom"}}
    \cup {Expanded(<<k>>) : k \in {")", ","}}
    \cup {Expanded(<<"(", "begin">>), Expanded(<<"end", "}">>)}
    \cup {Plain(<<"(", "atom", ")">>), Plain(<<"/", "integer">>),
          Plain(<<"(", ")", "->", "atom">>)}

\* what follows the argument text in the invocation
Tails == {<<>>, Plain(<<",", "atom", ")">>)}

RECURSIVE Texts(_)
Texts(n) ==
    IF n = 0 THEN {<<>>}
    ELSE LET shorter == Texts(n - 1)
         IN  shorter \cup {t \o p : t \in shorter, p \in Phrases}

Positioned(text) ==
    [i \in 1..Len(text) |-> Token(text[i].kind, i - 1, text[i].expanded)]

MacroStreams == {Positioned(t \o tail) : t \in Texts(MaxPhrases), tail \in Tails}

InitMacro == InitWith(MacroStreams)

ArgCall(op, from, out) ==
    /\ index' = out.index
    /\ pc' = out.pc
    /\ arg_tokens' = out.tokens
    /\ level' = out.level
    /\ hist' = out.hist
    /\ last' = [op |-> op, entry |-> from, ret |-> out.res]
    /\ UNCHANGED <<tokens, created, last_error, run, rewound>>
    /\ UNCHANGED macroVars
    /\ UNCHANGED layoutVars

\* the first argument
MacroArgParse ==
    /\ pc = "idle"
    /\ ArgCall("MacroArg", index, MacroArg_parse(index, <<>>, ZeroLevel, <<>>))

\* NonEmptyItems<MacroArg>: after an argument, a `,` and the next argument
MacroArgNext ==
    /\ pc = "done"
    /\ try_read_expect(index, ",").res.ok
    /\ ArgCall("MacroArg", index + 1,
               MacroArg_parse(index + 1, <<>>, ZeroLevel, <<>>))

NextMacro ==
    \/ MacroArgParse
    \/ MacroArgNext

SpecMacro == InitMacro /\ [][NextMacro]_vars

----------------------------------------------------------------------------
(* Claims about the cursor *)

\* C1: with_transaction(f) entered with the cursor at i: when f returns an
\* error the cursor is i again and that same error is returned; when f
\* succeeds the cursor is where f left it and f's value is returned.
C1_TransactionRestoresOnError ==
    last.op = "with_transaction" =>
        /\ last.ret = last.fret
        /\ index = (IF last.fret.ok THEN last.fidx ELSE last.entry)

\* a transaction whose closure advanced the cursor and then failed
C1_Witness ==
    /\ last.op = "with_transaction"
    /\ ~last.fret.ok
    /\ last.fidx > last.entry

PeekOps == {"with_peek", "peek_token", "peek_tokens", "expect_2tokens", "try_peek_expect"}

\* C2: every peek operation (with_peek, peek_token, peek_tokens(n),
\* expect_2tokens, try_peek_expect) leaves the cursor where it was before
\* the call, whether the probe succeeded, failed on a mismatch or ran past
\* the end, and returns what the probe computed.
C2_PeekLeavesCursor ==
    last.op \in PeekOps =>
        /\ index = last.entry
        /\ last.op \in {"with_peek", "peek_token", "peek_tokens"} => last.ret = last.fret
        /\ last.op = "expect_2tokens" => last.ret = OkBool(last.fret.ok)
        /\ last.op = "try_peek_expect" =>
               last.ret = (IF last.fret.ok THEN last.fret ELSE None)

\* a peek of several tokens that read some and then ran past the end
C2_Witness ==
    /\ last.op = "peek_tokens"
    /\ ~last.ret.ok
    /\ last.ret.err.name = "UnexpectedEof"
    /\ last.fidx > last.entry

\* C3: with n tokens and the cursor at i, read_token returns token i and
\* sets the cursor to i + 1 when i < n; when i = n it fails with
\* UnexpectedEof and leaves the cursor at n.  eof() returns true exactly
\* when i = n and never moves the cursor.
C3_ReadTokenAndEof ==
    /\ last.op = "read_token" =>
           IF last.entry < Len(tokens)
           THEN /\ last.ret = Ok(<<tokens[last.entry + 1]>>)
                /\ last.ret.val[1].pos = last.entry
                /\ index = last.entry + 1
           ELSE /\ last.entry = Len(tokens)
                /\ ~last.ret.ok
                /\ last.ret.err.name = "UnexpectedEof"
                /\ index = Len(tokens)
    /\ last.op = "eof" =>
           /\ last.ret.ok
           /\ last.ret.flag = (last.entry = Len(tokens))
           /\ index = last.entry

\* read_token at the end of a non-empty vector
C3_Witness ==
    /\ last.op = "read_token"
    /\ last.entry = Len(tokens)
    /\ Len(tokens) > 0
    /\ ~last.ret.ok

\* C4: after any sequence of read, expect, peek, transaction and try
\* operations, failing ones included, the cursor is between 0 and the
\* number of tokens, the token vector is the one the stream was created
\* with, and the tokens handed out by successful reads between two rewinds
\* are consecutive tokens in source order.
C4_CursorInRangeReadsInOrder ==
    /\ index \in 0..Len(tokens)
    /\ tokens = created
    /\ \A j \in 1..Len(run) :
           /\ run[j].pos < Len(tokens)
           /\ run[j] = tokens[run[j].pos + 1]
           /\ j > 1 => run[j].pos = run[j - 1].pos + 1
    /\ (~rewound /\ run # <<>>) => run[Len(run)].pos + 1 = index

\* two tokens read in a row after an earlier call rewound the cursor over
\* tokens it had read
C4_Witness ==
    /\ Len(run) >= 2
    /\ ~rewound
    /\ last.op = "read_token"
    /\ index = Len(tokens)
    /\ run[1].pos = 0

\* C5: a try-style parse does not fail because the attempted item fails:
\* try_read_expect returns the token and advances the cursor by exactly one
\* when the next token matches, and otherwise (mismatch or end of stream)
\* returns absent with the cursor unchanged; Maybe<T>::parse yields an
\* absent item with the cursor at its entry position when T fails to parse,
\* and fails only when a position lookup fails.
C5_TryNeverFailsOnItem ==
    /\ last.op = "try_read_expect" =>
           IF /\ last.entry < Len(tokens)
              /\ expect(last.expected[1], tokens[last.entry + 1])
           THEN /\ last.ret = Ok(<<tokens[last.entry + 1]>>)
                /\ index = last.entry + 1
           ELSE /\ last.ret = None
                /\ index = last.entry
    /\ (last.op = "Maybe_parse" /\ last.n = 0) =>
           /\ last.ret.ok
           /\ last.ret.flag = last.fret.ok
           /\ last.ret.val = last.fret.val
           /\ index = (IF last.fret.ok THEN last.fidx ELSE last.entry)
    /\ (last.op = "Maybe_parse" /\ ~last.ret.ok) => last.n = 1

\* Maybe<T>::parse whose item read a token and then failed
C5_Witness ==
    /\ last.op = "Maybe_parse"
    /\ last.ret.ok
    /\ ~last.ret.flag
    /\ last.fidx > last.entry
    /\ index = last.entry

----------------------------------------------------------------------------
(* The parser specification: enum parsers called one after another on one  *)
(* token reader                                                            *)

ExprKinds == {"atom", "variable", "string", "<-", "<=", "("}

\* the fun expressions of the tests of functions.rs, as token kinds
FunTexts ==
    { <<"fun", "atom", "/", "integer">>,
      <<"fun", "atom", ":", "atom", "/", "variable">>,
      <<"fun", "(", "atom", ")", ":", "variable", "/", "(", "atom", ")">>,
      <<"fun", "(", ")", "->", "atom", "end">>,
      <<"fun", "(", "atom", ")", "->", "atom", ";",
        "(", "variable", ")", "->", "variable", "end">>,
      <<"fun", "variable", "(", ")", "->", "atom", "end">>,
      <<"fun", "variable", "(", "atom", ")", "->", "atom", ";",
        "variable", "(", "variable", ")", "->", "variable", "end">> }

Prefixes(S) == UNION {{SubSeq(t, 1, n) : n \in 0..Len(t)} : t \in S}

ParseStreams ==
    {Lex(ks) : ks \in SeqsUpTo(ExprKinds, MaxParseTokens) \cup Prefixes(FunTexts)}

InitParse == InitWith(ParseStreams)

ParseCall(op, out) ==
    /\ index' = out.index
    /\ last_error' = out.last_error
    /\ last' = [op |-> op, entry |-> index, entry_error |-> last_error,
                ret |-> out.res, variant |-> out.variant,
                attempts |-> out.attempts]
    /\ UNCHANGED <<tokens, created, run, rewound, pc, arg_tokens, level, hist>>
    /\ UNCHANGED macroVars
    /\ UNCHANGED layoutVars

ExprParse ==
    \E tie \in BOOLEAN : ParseCall("Expr", Expr_parse(index, last_error, tie))

FunctionExprParse ==
    \E tie \in BOOLEAN :
        ParseCall("FunctionExpr", Parse(FunctionExpr, index, last_error, tie))

QualifierParse ==
    \E tie \in BOOLEAN :
        ParseCall("Qualifier", Parse(Qualifier, index, last_error, tie))

NextParse ==
    \/ ExprParse
    \/ FunctionExprParse
    \/ QualifierParse

SpecParse == InitParse /\ [][NextParse]_vars

----------------------------------------------------------------------------
(* Claims about enum parsing *)

Declared(op) ==
    IF op = "Expr" THEN <<"Atom", "Variable", "String">>
    ELSE <<"Defined", "Anonymous", "Named">>

\* C6: parsing an enum node (Expr: Atom, Variable, String; FunctionExpr:
\* Defined, Anonymous, Named) attempts the variants in declaration order,
\* every attempt starting from the cursor position at entry, and returns
\* the first variant that succeeds; a failed variant consumes no tokens and
\* no variant is attempted after a success, so exactly one branch is chosen.
C6_EnumFirstSuccessInOrder ==
    last.op \in {"Expr", "FunctionExpr"} =>
        LET made == last.attempts
            n == Len(made)
        IN  /\ n \in 1..Len(Declared(last.op))
            /\ \A i \in 1..n :
                   /\ made[i].variant = Declared(last.op)[i]
                   /\ made[i].start = last.entry
                   /\ made[i].ok = (i = n /\ last.ret.ok)
            /\ last.ret.ok =>
                   /\ last.variant = made[n].variant
                   /\ index = made[n].stop
            /\ ~last.ret.ok =>
                   /\ n = Len(Declared(last.op))
                   /\ index = last.entry

\* a FunctionExpr chosen as Anonymous after the Defined attempt had read
\* tokens and failed
C6_Witness ==
    /\ last.op = "FunctionExpr"
    /\ last.ret.ok
    /\ last.variant = "Anonymous"
    /\ Len(last.attempts) = 2
    /\ last.attempts[1].stop > last.entry
    /\ index > last.entry

AllFailed == last.op = "Expr" /\ Len(last.attempts) = 3 /\ ~last.attempts[3].ok

\* C7 as stated: when every alternative of Expr fails, the error returned
\* is the one of an attempted alternative, the one that reached furthest,
\* and the expect("unreachable") does not fire.
C7_ErrorIsOfAnAlternative ==
    AllFailed =>
        /\ ~last.ret.ok
        /\ last.ret.err # Unreachable
        /\ \E i \in 1..3 : last.ret.err = last.attempts[i].err
        /\ \A i \in 1..3 : last.attempts[i].err.position <= last.ret.err.position

\* C7 amended: when every alternative of Expr fails, Expr::parse returns
\* the deepest error recorded so far: it is the error of an attempted
\* alternative or the error that was already recorded when Expr::parse was
\* entered, it reaches at least as far as every attempted alternative and
\* as the error recorded at entry, the record is emptied, and the
\* expect("unreachable") does not fire.
C7_ErrorIsDeepestRecorded ==
    AllFailed =>
        /\ ~last.ret.ok
        /\ last.ret.err # Unreachable
        /\ \/ \E i \in 1..3 : last.ret.err = last.attempts[i].err
           \/ last.entry_error = Err(last.ret.err)
        /\ \A i \in 1..3 : last.attempts[i].err.position <= last.ret.err.position
        /\ last.entry_error # None =>
               last.entry_error.err.position <= last.ret.err.position
        /\ last_error = None
        /\ index = last.entry

\* every alternative of Expr failed while a deeper error of an earlier,
\* rolled-back attempt was still recorded, and that one is returned
C7_Witness ==
    /\ AllFailed
    /\ last.entry_error # None
    /\ last.ret.err = last.entry_error.err
    /\ \A i \in 1..3 : last.attempts[i].err.position < last.ret.err.position

----------------------------------------------------------------------------
(* Claims about macro argument capture *)

Fields == {"paren", "brace", "square", "bits", "block"}

\* the token right after token t of the stream is `(`, or the second one is
FunBeforeParen(t) ==
    \/ (t.pos + 1 < Len(tokens) /\ tokens[t.pos + 2].kind = "(")
    \/ (t.pos + 2 < Len(tokens) /\ tokens[t.pos + 3].kind = "(")

Opener(field, t) ==
    /\ ~t.expanded
    /\ CASE field = "paren" -> t.kind = "("
         [] field = "brace" -> t.kind = "{"
         [] field = "square" -> t.kind = "["
         [] field = "bits" -> t.kind = "<<"
         [] field = "block" ->
               \/ t.kind \in {"begin", "try", "case", "if"}
               \/ (t.kind = "fun" /\ FunBeforeParen(t))

Closer(field, t) ==
    /\ ~t.expanded
    /\ CASE field = "paren" -> t.kind = ")"
         [] field = "brace" -> t.kind = "}"
         [] field = "square" -> t.kind = "]"
         [] field = "bits" -> t.kind = ">>"
         [] field = "block" -> t.kind = "end"

\* openers minus closers of one kind among the first k tokens of ts
Depth(field, ts, k) ==
    Cardinality({i \in 1..k : Opener(field, ts[i])})
        - Cardinality({i \in 1..k : Closer(field, ts[i])})

\* the first k captured tokens are at top level and a separator follows them
StopsAfter(k) ==
    /\ \A f \in Fields : Depth(f, arg_tokens, k) = 0
    /\ last.entry + k < Len(tokens)
    /\ tokens[last.entry + k + 1].kind \in {",", ")"}

\* C8: MacroArg::parse captures tokens until, and only until, at least one
\* token is captured, all five level counters are zero and the next token
\* is `,` or `)`, which is not consumed.  So a comma or closing parenthesis
\* nested in (), {}, [], << >> or a begin/try/case/if/fun( ... end block
\* does not end the argument, and in a captured argument the openers and
\* closers written at the call site are balanced for each of the five kinds.
C8_CaptureStopsAtTopLevelSeparator ==
    pc \in {"done", "error", "panic"} =>
        LET n == Len(arg_tokens)
        IN  /\ arg_tokens = SubSeq(tokens, last.entry + 1, last.entry + n)
            /\ \A k \in 1..(n - 1) : ~StopsAfter(k)
            /\ pc = "done" =>
                   /\ n >= 1
                   /\ index = last.entry + n
                   /\ StopsAfter(n)
                   /\ level = ZeroLevel
                   /\ \A f \in Fields : \A k \in 1..n : Depth(f, arg_tokens, k) >= 0
            /\ pc # "done" => (n = 0 \/ ~StopsAfter(n))

\* a captured argument that holds a comma written at the call site
C8_Witness ==
    /\ pc = "done"
    /\ \E i \in 1..Len(arg_tokens) :
           /\ arg_tokens[i].kind = ","
           /\ ~arg_tokens[i].expanded
           /\ Depth("brace", arg_tokens, i) + Depth("block", arg_tokens, i) > 0

\* the fun at token t starts a `fun Name/Arity` expression
DefinedFunctionAt(t) ==
    LET r == Parse(FunctionExpr, t.pos, None, FALSE)
    IN  r.res.ok /\ r.variant = "Defined"

\* C9: during capture the keyword `fun` increments the block counter
\* exactly when the token right after it is `(` or the second token after
\* it is `(`; in the `fun Name/Arity` form it leaves the counter unchanged,
\* so that every `fun` that incremented it is matched by a later `end`.
C9_FunOpensBlockOnlyBeforeParen ==
    \A i \in 1..Len(hist) :
        LET t == hist[i].token
        IN  (t.kind = "fun" /\ ~t.expanded) =>
                /\ hist[i].after.block =
                       hist[i].before.block + (IF FunBeforeParen(t) THEN 1 ELSE 0)
                /\ DefinedFunctionAt(t) => hist[i].after = hist[i].before

\* C10: a capture that meets a closing delimiter while the corresponding
\* counter is zero, or that reaches the end of the stream before a top-level
\* separator, fails with an UnbalancedDelimiter error returned to the
\* caller; it does not abort the program.
C10_UnbalancedIsAnErrorValue ==
    /\ pc # "panic"
    /\ pc = "error" =>
           /\ ~last.ret.ok
           /\ last.ret.err.name = "UnbalancedDelimiter"

\* C14: during macro argument capture a token that came from a macro
\* expansion is appended to the argument without changing any of the five
\* level counters, whatever its kind (opener, closer, block keyword or
\* `end`); only tokens written at the call site move the counters.
C14_ExpandedTokensAreOpaque ==
    \A i \in 1..Len(hist) :
        /\ hist[i].token.expanded =>
               /\ hist[i].after = hist[i].before
               /\ i <= Len(arg_tokens)
               /\ arg_tokens[i] = hist[i].token
        /\ hist[i].after # hist[i].before => ~hist[i].token.expanded
        /\ hist[i].token = tokens[last.entry + i]

\* a finished capture that took an expanded opener and block keyword, and
\* an expanded `end` and closer while their counters were zero
C14_Witness ==
    /\ pc = "done"
    /\ \E i, j \in 1..Len(hist) :
           /\ hist[i].token.expanded /\ hist[i].token.kind = "begin"
           /\ hist[j].token.expanded /\ hist[j].token.kind = "end"
           /\ hist[j].before.block = 0
           /\ j < i
    /\ \E i \in 1..Len(hist) : ~hist[i].token.expanded

----------------------------------------------------------------------------
(* Macro::parse and Macro::expand, src/src/items/macros.rs.  A token of    *)
(* this part also carries its text (`value`) and its region (`span`); the  *)
(* invocation `? Name ...` starts the token vector, the cursor is behind   *)
(* the name when Macro::parse is called.                                   *)

\* most arguments written in an invocation
MaxArgs == 2
\* most parameters of a macro definition
MaxParams == 2
\* longest replacement of a macro definition
MaxReplacement == 2

\* Option<usize>: None, Some(n)
NoArity == [some |-> FALSE, n |-> 0]
SomeArity(n) == [some |-> TRUE, n |-> n]

\* Option<Vec<VariableToken>>::Some
SomeVariables(names) == [some |-> TRUE, names |-> names]

Span(start, end) == [start |-> start, end |-> end]

\* a token of the source text: token p of the vector, one column wide, at
\* column `at`
SourceToken(k, v, p, at) ==
    [kind |-> k, value |-> v, pos |-> p, expanded |-> FALSE,
     span |-> Span(at, at + 1)]

\* Token::set_span
set_span(token, span) == [token EXCEPT !.span = span]

\* what a parse of the argument list leaves: the cursor, the result, the
\* arguments parsed, the region end, and "done", "error" or "panic"
ArgList(ix, res, items, at) ==
    [index |-> ix, res |-> res, items |-> items, pc |-> at]

\* a value computed once and named: the element of a one-element set
The(S) == CHOOSE x \in S : TRUE

\* NonEmptyItems<MacroArg>::parse with `items` parsed so far: an argument,
\* then while a `,` parses another argument
RECURSIVE NonEmptyItems_MacroArg(_, _)
NonEmptyItems_MacroArg(ix, items) ==
    The({LET item == IF a.pc = "panic" THEN a ELSE parse(ix, a)
             delimiter == try_read_expect(item.index, ",")
         IN  IF item.pc # "done"
             THEN ArgList(item.index, item.res, items, item.pc)
             ELSE IF delimiter.res.ok
             THEN NonEmptyItems_MacroArg(delimiter.index, Append(items, item.tokens))
             ELSE ArgList(item.index, Ok(<<>>), Append(items, item.tokens), "done")
         : a \in {MacroArg_parse(ix, <<>>, ZeroLevel, <<>>)}})

\* Items<MacroArg>, that is Maybe<NonEmptyItems<MacroArg>>; a panic is not
\* a value Maybe could turn into an absent item
Items_MacroArg(ix) ==
    The({IF t.pc = "panic" THEN t
         ELSE The({[m EXCEPT !.items = IF m.res.flag THEN @ ELSE <<>>,
                             !.pc = "done"]
                   : m \in {Maybe_parse(ix, t, TRUE, TRUE)}})
         : t \in {NonEmptyItems_MacroArg(ix, <<>>)}})

\* Parenthesized<Items<MacroArg>>: `(`, the items, `)`
Parenthesized_Items_MacroArg(ix) ==
    LET open == parse(ix, read_expect(ix, "("))
    IN  IF ~open.res.ok THEN ArgList(open.index, open.res, <<>>, "error")
        ELSE The({LET close == parse(items.index, read_expect(items.index, ")"))
                  IN  IF items.pc = "panic" THEN items
                      ELSE IF ~close.res.ok
                      THEN ArgList(close.index, close.res, <<>>, "error")
                      ELSE ArgList(close.index, Ok(<<>>), items.items, "done")
                  : items \in {Items_MacroArg(open.index)}})

\* what Macro::parse leaves: the cursor, the result, the Macro built
MacroParsed(ix, res, m, at) == [index |-> ix, res |-> res, macro |-> m, pc |-> at]

\* Span of Macro { question, name, args }: from the `?` to the end of args;
\* an absent Maybe ends where the previous token (the name) ends
Macro_span(ix, has_args, end) ==
    Span(tokens[1].span.start,
         IF has_args THEN tokens[end].span.end ELSE tokens[ix].span.end)

Macro_parse(ix, arity) ==
    IF ~arity.some
    THEN MacroParsed(ix, Ok(<<>>),
             [has_args |-> FALSE, args |-> <<>>,
              span |-> Macro_span(ix, FALSE, ix)], "parsed")
    ELSE The({IF t.pc = "panic" THEN MacroParsed(t.index, t.res, NoMacro, "panic")
              ELSE The({MacroParsed(m.index, Ok(<<>>),
                            [has_args |-> m.res.flag,
                             args |-> IF m.res.flag THEN m.items ELSE <<>>,
                             span |-> Macro_span(ix, m.res.flag, m.index)],
                            "parsed")
                        : m \in {Maybe_parse(ix, t, TRUE, TRUE)}})
              : t \in {Parenthesized_Items_MacroArg(ix)}})

\* the HashMap collected from vars.zip(vals): the pairs up to the shorter
\* of the two, a later pair replacing an earlier one of the same name
expand_keys(m, variables) ==
    IF ~variables.some \/ ~m.has_args THEN {}
    ELSE {i \in 1..Len(variables.names) : i <= Len(m.args)}

contains_key(m, variables, name) ==
    \E i \in expand_keys(m, variables) : variables.names[i] = name

\* an argument scanned again for parameter names
RECURSIVE expand_rescan(_, _, _)
expand_rescan(m, variables, arg) ==
    IF arg = <<>> THEN <<>>
    ELSE LET at == {i \in expand_keys(m, variables) :
                       variables.names[i] = Head(arg).value}
         IN  (IF Head(arg).kind = "variable" /\ at # {}
              THEN m.args[CHOOSE i \in at : \A j \in at : j <= i]
              ELSE <<Head(arg)>>)
                 \o expand_rescan(m, variables, Tail(arg))

expand_get_rescanned(m, variables, name) ==
    LET at == {i \in expand_keys(m, variables) : variables.names[i] = name}
    IN  expand_rescan(m, variables, m.args[CHOOSE i \in at : \A j \in at : j <= i])

expand_get(m, variables, name) ==
    LET at == {i \in expand_keys(m, variables) : variables.names[i] = name}
    IN  m.args[CHOOSE i \in at : \A j \in at : j <= i]

\* the `for token in replacement` loop
RECURSIVE expand_extend(_, _, _)
expand_extend(m, variables, replacement) ==
    IF replacement = <<>> THEN <<>>
    ELSE LET token == Head(replacement)
             rest == expand_extend(m, variables, Tail(replacement))
         IN  IF token.kind = "variable" /\ contains_key(m, variables, token.value)
             THEN expand_get(m, variables, token.value) \o rest
             ELSE <<token>> \o rest

Macro_expand_ownspan(m, variables, replacement) ==
    LET spanned == [i \in 1..Len(replacement) |-> set_span(replacement[i], m.span)]
    IN  expand_extend(m, variables, spanned)

Macro_expand(m, variables, replacement) ==
    LET extended == expand_extend(m, variables, replacement)
    IN  [i \in 1..Len(extended) |-> set_span(extended[i], m.span)]

----------------------------------------------------------------------------
(* The invocation specification: a macro definition is in the directory,   *)
(* an invocation of it is parsed and then expanded                         *)

ParamNames == {"A", "B"}

\* the tokens a replacement is written with: an atom, the parameters, a
\* variable that is no parameter
BodyTexts ==
    {[kind |-> "atom", value |-> "a"], [kind |-> "variable", value |-> "C"]}
    \cup {[kind |-> "variable", value |-> n] : n \in ParamNames}

\* the replacement is written in columns 0 .. Len - 1 of the directive
Replacement(text) ==
    [i \in 1..Len(text) |-> SourceToken(text[i].kind, text[i].value, i - 1, i - 1)]

Defines ==
    [variables : {NoVariables}
                 \cup {SomeVariables(v) : v \in SeqsUpTo(ParamNames, MaxParams)},
     replacement : {Replacement(t) : t \in SeqsUpTo(BodyTexts, MaxReplacement)}]

Text(kinds) == [i \in 1..Len(kinds) |-> [kind |-> kinds[i], value |-> kinds[i]]]

\* the arguments written in invocations: an atom, a variable named as a
\* parameter, a tuple with a nested comma
ArgTexts ==
    {Text(<<"atom">>), <<[kind |-> "variable", value |-> "A"]>>,
     Text(<<"{", "atom", ",", "atom", "}">>)}

RECURSIVE ArgLists(_)
ArgLists(n) ==
    IF n = 1 THEN ArgTexts
    ELSE LET shorter == ArgLists(n - 1)
         IN  shorter \cup {l \o Text(<<",">>) \o a : l \in shorter, a \in ArgTexts}

\* what follows `? Name`: nothing, `()`, an argument list, an argument list
\* the end of the text cuts
InvocationTexts ==
    {<<>>, Text(<<"(", ")">>), Text(<<"(">>)}
    \cup {Text(<<"(">>) \o l \o Text(<<")">>) : l \in ArgLists(MaxArgs)}
    \cup {Text(<<"(">>) \o l : l \in ArgLists(MaxArgs)}

\* the invocation is written behind the directive, from column `at` on
Invocation(text, at) ==
    LET all == Text(<<"?", "atom">>) \o text
    IN  [i \in 1..Len(all) |-> SourceToken(all[i].kind, all[i].value, i - 1, at + i - 1)]

\* define.variables().map(|x| x.len())
Arity(d) ==
    IF d.variables.some THEN SomeArity(Len(d.variables.names)) ELSE NoArity

InitInvoke ==
    /\ define \in Defines
    /\ tokens \in {Invocation(t, Len(define.replacement)) : t \in InvocationTexts}
    /\ created = tokens
    /\ index = 2
    /\ last_error = None
    /\ last = NoCall
    /\ run = <<>>
    /\ rewound = FALSE
    /\ pc = "idle"
    /\ arg_tokens = <<>>
    /\ level = ZeroLevel
    /\ hist = <<>>
    /\ macro = NoMacro
    /\ expansion = <<>>
    /\ node = NoNode
    /\ fmt = NoFormatter

MacroParse ==
    /\ pc = "idle"
    /\ \E out \in {Macro_parse(index, Arity(define))} :
           /\ index' = out.index
           /\ pc' = out.pc
           /\ macro' = out.macro
           /\ last' = [op |-> "Macro_parse", entry |-> index, ret |-> out.res]
    /\ UNCHANGED <<tokens, created, last_error, run, rewound, arg_tokens,
                   level, hist, define, expansion, node, fmt>>

MacroExpand ==
    /\ pc = "parsed"
    /\ expansion' = Macro_expand(macro, define.variables, define.replacement)
    /\ pc' = "expanded"
    /\ last' = [op |-> "Macro_expand", entry |-> index, ret |-> Ok(<<>>)]
    /\ UNCHANGED <<tokens, created, index, last_error, run, rewound,
                   arg_tokens, level, hist, define, macro, node, fmt>>

NextInvoke ==
    \/ MacroParse
    \/ MacroExpand

SpecInvoke == InitInvoke /\ [][NextInvoke]_vars

----------------------------------------------------------------------------
(* Claims about macro invocations *)

\* C11: a macro invocation whose number of captured arguments differs from
\* the number of parameters the macro was defined with is rejected with
\* MacroArityMismatch; no expansion is produced for it.
C11_ArityMismatchIsRejected ==
    (/\ last.op \in {"Macro_parse", "Macro_expand"}
     /\ pc # "panic"
     /\ define.variables.some
     /\ macro.has_args
     /\ Len(macro.args) # Len(define.variables.names)) =>
        /\ ~last.ret.ok
        /\ last.ret.err.name = "MacroArityMismatch"
        /\ pc # "expanded"

\* C12: Macro::parse distinguishes arity none from arity zero: with arity
\* none it consumes no token after the macro name and the invocation has no
\* argument list, even when `(` follows; with arity Some(0) the invocation
\* `?Name()` parses successfully, consuming `(` and `)`, and has a present,
\* empty argument list.
C12_ArityNoneIsNotArityZero ==
    last.op = "Macro_parse" =>
        /\ ~define.variables.some =>
               /\ last.ret.ok
               /\ index = last.entry
               /\ ~macro.has_args
        /\ (/\ Arity(define) = SomeArity(0)
            /\ Len(tokens) = last.entry + 2
            /\ tokens[last.entry + 1].kind = "("
            /\ tokens[last.entry + 2].kind = ")") =>
               /\ pc = "parsed"
               /\ last.ret.ok
               /\ index = last.entry + 2
               /\ macro.has_args
               /\ macro.args = <<>>

\* the parameter whose argument replaces a token of the replacement: the
\* position of the token's name in the parameter list; 0 when the token is
\* kept (no variable, no parameter of that name, no parameter list, no
\* argument list, no argument at that position)
ParamAt(token) ==
    IF token.kind # "variable" \/ ~define.variables.some \/ ~macro.has_args
    THEN 0
    ELSE LET names == define.variables.names
             at == {i \in 1..Len(names) :
                       names[i] = token.value /\ i <= Len(macro.args)}
         IN  IF at = {} THEN 0 ELSE CHOOSE i \in at : \A j \in at : j <= i

Width(token) ==
    IF ParamAt(token) = 0 THEN 1 ELSE Len(macro.args[ParamAt(token)])

\* how many tokens of the expansion the first k tokens of the replacement give
RECURSIVE Offset(_)
Offset(k) == IF k = 0 THEN 0 ELSE Offset(k - 1) + Width(define.replacement[k])

----------------------------------------------------------------------------
(* The Formatter as Elements and NonEmptyItems use it                      *)
(*                                                                         *)
(* The buffer is the sequence of pieces written so far.  A newline piece   *)
(* stands for the line break and the indent after it, its len being the    *)
(* indent.  White space that was asked for is `pending` until the next     *)
(* piece is written, so that no line ends in white space.                  *)

\* most items of a list
MaxItems == 3
\* longest text of an item
MaxItemLen == 2
\* largest max_columns option
MaxColumns == 7
\* longest text on the line before the list
MaxLead == 1

Piece(kind, n, of) == [kind |-> kind, len |-> n, of |-> of]

\* Span::len: the length of the text of an item
len(x) == x.end - x.start

\* Format::is_primitive
is_primitive(x) == x.kind = "atom"

\* the column after the last piece of the buffer
RECURSIVE Column(_)
Column(buf) ==
    IF buf = <<>> THEN 0
    ELSE IF buf[Len(buf)].kind = "newline" THEN buf[Len(buf)].len
    ELSE Column(SubSeq(buf, 1, Len(buf) - 1)) + buf[Len(buf)].len

\* Formatter::current_column: a space that is due counts
current_column(f) ==
    CASE f.pending = "newline" -> f.indent
      [] f.pending = "space" -> Column(f.buf) + 1
      [] OTHER -> Column(f.buf)

\* Formatter::max_columns
max_columns(f) == f.max_columns

\* Formatter::multiline_mode().is_recommended()
is_recommended(f) == f.multiline

\* Formatter::needs_space
needs_space(f) ==
    IF f.pending = "newline" THEN f ELSE [f EXCEPT !.pending = "space"]

\* Formatter::needs_newline
needs_newline(f) == [f EXCEPT !.pending = "newline"]

\* the buffer with the white space that is due
write_pending(f) ==
    CASE f.pending = "newline" -> Append(f.buf, Piece("newline", f.indent, 0))
      [] f.pending = "space" -> Append(f.buf, Piece("space", 1, 0))
      [] OTHER -> f.buf

\* Formatter::format_item for an item that is one piece of text
format_item(f, piece) ==
    [f EXCEPT !.buf = Append(write_pending(f), piece), !.pending = "none"]

\* Formatter::with_subregion, indent(IndentMode::CurrentColumn): entering
subregion(f) == [f EXCEPT !.indent = current_column(f)]

\* Formatter::with_subregion: leaving, `outer` being the formatter at entry
end_subregion(f, outer) == [f EXCEPT !.indent = outer.indent]

\* NonEmptyItems::format: the loop over items.zip(delimiters), from pair i
RECURSIVE NonEmptyItems_format_loop(_, _, _)
NonEmptyItems_format_loop(self, f, i) ==
    IF i > Len(self.items) \/ i > Len(self.delimiters) THEN f
    ELSE The({ NonEmptyItems_format_loop(
                   self,
                   IF is_recommended(g) THEN needs_newline(g)
                                        ELSE needs_space(g),
                   i + 1)
               : g \in {format_item(
                            format_item(f, Piece("item", len(self.items[i]), i)),
                            Piece("delimiter", len(self.delimiters[i]), i))} })

\* NonEmptyItems::format
NonEmptyItems_format(self, f) ==
    format_item(NonEmptyItems_format_loop(self, f, 1),
                Piece("item", len(self.items[Len(self.items)]),
                      Len(self.items)))

\* Maybe::format under Items: an absent list writes nothing
Items_format(self, f) ==
    IF self.some THEN NonEmptyItems_format(self, f) ELSE f

\* Elements::format_packed_items: the loop over items.zip(delimiters);
\* `first` is false from the second pair on
RECURSIVE format_packed_loop(_, _, _)
format_packed_loop(self, f, i) ==
    IF i > Len(self.items) \/ i > Len(self.delimiters) THEN f
    ELSE The({ format_packed_loop(
                   self,
                   needs_space(
                       format_item(
                           format_item(g, Piece("item", len(self.items[i]), i)),
                           Piece("delimiter", len(self.delimiters[i]), i))),
                   i + 1)
               : g \in {IF /\ i > 1
                           /\ current_column(f) + len(self.items[i])
                                  + len(self.delimiters[i]) > max_columns(f)
                        THEN needs_newline(f)
                        ELSE f} })

\* Elements::format_packed_items
format_packed_items(self, f) ==
    IF ~self.some THEN f
    ELSE The({ format_item(
                   IF /\ Len(self.delimiters) > 0
                      /\ current_column(g) + len(self.items[Len(self.items)])
                             > max_columns(g)
                   THEN needs_newline(g)
                   ELSE g,
                   Piece("item", len(self.items[Len(self.items)]),
                         Len(self.items)))
               : g \in {format_packed_loop(self, f, 1)} })

\* Items::get
Items_get(self) == IF self.some THEN self.items ELSE <<>>

\* Elements::format with every list flowed
Elements_format_flowed(self, f) ==
    end_subregion(format_packed_items(self, subregion(f)), f)

\* Elements::format
Elements_format(self, f) ==
    IF \A i \in 1..Len(Items_get(self)) : is_primitive(Items_get(self)[i])
    THEN end_subregion(format_packed_items(self, subregion(f)), f)
    ELSE end_subregion(Items_format(self, subregion(f)), f)

----------------------------------------------------------------------------
(* The formatting specification: a list between its brackets              *)

\* an item or delimiter of the source: its kind and its region
Element(kind, start, end) == [kind |-> kind, start |-> start, end |-> end]

\* the texts an item is drawn from: its kind and its length
ItemTexts == {"atom", "call"} \X (1..MaxItemLen)

\* the items of the texts `its`, the first at `at`, each followed by `, `
Place(its, at) ==
    [i \in 1..Len(its) |->
        Element(its[i][1], at + (MaxItemLen + 2) * (i - 1), at + (MaxItemLen + 2) * (i - 1) + its[i][2])]

\* the `,` after each item but the last
PlaceDelimiters(items) ==
    [i \in 1..(Len(items) - 1) |->
        Element(",", items[i].end, items[i].end + 1)]

\* Elements<T>: Items<T> is Maybe<NonEmptyItems<T>>
Elements(its) ==
    [kind |-> "Elements", some |-> its # <<>>,
     items |-> Place(its, 1),
     delimiters |-> PlaceDelimiters(Place(its, 1)),
     start |-> 1,
     end |-> IF its = <<>> THEN 1 ELSE Place(its, 1)[Len(its)].end,
     children |-> <<>>]

Formatter(lead, max, multiline) ==
    [buf |-> IF lead = 0 THEN <<>> ELSE <<Piece("lead", lead, 0)>>,
     indent |-> 0, pending |-> "none", max_columns |-> max,
     multiline |-> multiline]

InitFormat ==
    /\ node \in {Elements(its) : its \in SeqsUpTo(ItemTexts, MaxItems)}
    /\ fmt \in {Formatter(lead, max, m) :
                    lead \in 0..MaxLead,
                    max \in (MaxColumns - 2)..MaxColumns,
                    m \in BOOLEAN}
    /\ tokens = <<>>
    /\ created = tokens
    /\ index = 0
    /\ last_error = None
    /\ last = NoCall
    /\ run = <<>>
    /\ rewound = FALSE
    /\ pc = "idle"
    /\ arg_tokens = <<>>
    /\ level = ZeroLevel
    /\ hist = <<>>
    /\ define = NoDefine
    /\ macro = NoMacro
    /\ expansion = <<>>

formatVars == <<tokens, created, index, last_error, last, run, rewound,
                arg_tokens, level, hist, define, macro, expansion, node>>

\* the opening bracket of the list
FormatOpen ==
    /\ pc = "idle"
    /\ fmt' = format_item(fmt, Piece("open", 1, 0))
    /\ pc' = "open"
    /\ UNCHANGED formatVars

FormatElements ==
    /\ pc = "open"
    /\ fmt' = Elements_format(node, fmt)
    /\ pc' = "items"
    /\ UNCHANGED formatVars

\* the closing bracket, for which trailing_item_size(1) is set
FormatClose ==
    /\ pc = "items"
    /\ fmt' = format_item(fmt, Piece("close", 1, 0))
    /\ pc' = "closed"
    /\ UNCHANGED formatVars

NextFormat ==
    \/ FormatOpen
    \/ FormatElements
    \/ FormatClose

SpecFormat == InitFormat /\ [][NextFormat]_vars

----------------------------------------------------------------------------
(* Claims about the formatting of lists                                    *)

\* the line of piece k of the buffer, the first line being 0
LineOf(buf, k) == Cardinality({j \in 1..k : buf[j].kind = "newline"})

\* the width of line l: the lengths of pieces 1..k that are on it
RECURSIVE LineWidthUpTo(_, _, _)
LineWidthUpTo(buf, l, k) ==
    IF k = 0 THEN 0
    ELSE LineWidthUpTo(buf, l, k - 1)
             + (IF LineOf(buf, k) = l THEN buf[k].len ELSE 0)

LineWidth(buf, l) == LineWidthUpTo(buf, l, Len(buf))

\* the items written on line l
ItemsOn(buf, l) ==
    {k \in 1..Len(buf) : buf[k].kind = "item" /\ LineOf(buf, k) = l}

AllPrimitive(self) ==
    \A i \in 1..Len(Items_get(self)) : is_primitive(Items_get(self)[i])

ItemAt(buf, i) ==
    CHOOSE k \in 1..Len(buf) : buf[k].kind = "item" /\ buf[k].of = i

\* what was written between the delimiter after item i - 1 and item i
Separator(buf, i) == buf[ItemAt(buf, i) - 1]

\* item i and what follows it on its line (its delimiter, nothing for the
\* last item) do not fit after a space on the line of item i - 1
MustBreak(self, buf, i, max) ==
    Column(SubSeq(buf, 1, ItemAt(buf, i) - 2)) + 1 + len(self.items[i])
        + (IF i < Len(self.items) THEN len(self.delimiters[i]) ELSE 0) > max

\* the items of a written list are flowed: nothing between the opening
\* bracket and the first item, and a line break before a later item exactly
\* when it does not fit, the new line indented to the column after the bracket
Flowed(self, buf, max) ==
    /\ self.some => buf[ItemAt(buf, 1) - 1].kind = "open"
    /\ \A i \in 2..Len(Items_get(self)) :
           /\ Separator(buf, i).kind =
                  (IF MustBreak(self, buf, i, max) THEN "newline" ELSE "space")
           /\ Separator(buf, i).len =
                  (IF MustBreak(self, buf, i, max)
                   THEN Column(SubSeq(buf, 1, ItemAt(buf, 1) - 1))
                   ELSE 1)

\* every item after the first is separated from the one before by `kind`
SeparatedBy(self, buf, kind) ==
    \A i \in 2..Len(Items_get(self)) : Separator(buf, i).kind = kind

\* C19 (as the code has it): a list whose items are all primitive, the empty
\* list included, is flowed up to max_columns with no break before the first
\* item; a list with an item that is not primitive has its items one per
\* line when the formatter's multiline mode is recommended, and separated by
\* single spaces on one line when it is not.
C19_ModeFromItemsLayoutFromMultilineMode ==
    pc \in {"items", "closed"} =>
        IF AllPrimitive(node)
        THEN Flowed(node, fmt.buf, fmt.max_columns)
        ELSE SeparatedBy(node, fmt.buf,
                         IF fmt.multiline THEN "newline" ELSE "space")

\* C19 (as stated): the layout follows from the items alone: all primitive,
\* flowed; otherwise each item on its own line.
C19_ModeFromItemsAlone ==
    pc \in {"items", "closed"} =>
        IF AllPrimitive(node)
        THEN Flowed(node, fmt.buf, fmt.max_columns)
        ELSE SeparatedBy(node, fmt.buf, "newline")

\* a list with an item that is not primitive was written on one line
C19_Witness ==
    /\ pc = "closed"
    /\ ~AllPrimitive(node)
    /\ Len(node.items) > 1
    /\ ~fmt.multiline
    /\ LineOf(fmt.buf, Len(fmt.buf)) = 0

----------------------------------------------------------------------------
(* Nodes and their regions                                                  *)
(*                                                                         *)
(* A node is a record of its kind, its region (start and end offsets), its *)
(* children in field order, and whether a macro-expanded token is below    *)
(* it.  A parser returns whether it succeeded, the cursor and the node.    *)

\* most words (tokens or macro invocations) of a source text
MaxWords == 4

Built(success, ix, n) == [ok |-> success, index |-> ix, node |-> n]

\* Token as a node: its region is the token's span
Leaf(token) ==
    [kind |-> token.kind, start |-> token.span.start, end |-> token.span.end,
     children |-> <<>>, expanded |-> token.expanded]

\* #[derive(Span)] of a struct: from the first field's start to the last
\* field's end
Struct_node(kind, children) ==
    [kind |-> kind, start |-> children[1].start,
     end |-> children[Len(children)].end, children |-> children,
     expanded |-> \E i \in 1..Len(children) : children[i].expanded]

\* the offset of the end of the text: one line end after the last token
TextEnd == IF tokens = <<>> THEN 0 ELSE tokens[Len(tokens)].span.end + 1

\* Lexer::prev_token_end_position
prev_token_end_position(ix) == IF ix = 0 THEN 0 ELSE tokens[ix].span.end

\* Lexer::next_token_start_position
next_token_start_position(ix) ==
    IF ix < Len(tokens) THEN tokens[ix + 1].span.start ELSE TextEnd

\* Lexer::parse of one token of the given kind: the cursor stays on failure
Token_node(ix, kind) ==
    IF ix < Len(tokens) /\ tokens[ix + 1].kind = kind
    THEN Built(TRUE, ix + 1, Leaf(tokens[ix + 1]))
    ELSE Built(FALSE, ix, NoNode)

\* the fields of NonEmptyItems in source order: item, delimiter, item, ...
Interleaved(items, delimiters) ==
    [k \in 1..(Len(items) + Len(delimiters)) |->
        IF k % 2 = 1 THEN items[(k + 1) \div 2] ELSE delimiters[k \div 2]]

\* NonEmptyItems with its Span (generics.rs:115-123)
NonEmptyItems_node(items, delimiters) ==
    [kind |-> "NonEmptyItems", start |-> items[1].start,
     end |-> items[Len(items)].end,
     children |-> Interleaved(items, delimiters),
     expanded |-> \/ \E i \in 1..Len(items) : items[i].expanded
                  \/ \E i \in 1..Len(delimiters) : delimiters[i].expanded,
     some |-> TRUE, items |-> items, delimiters |-> delimiters]

\* NonEmptyItems::parse, T = AtomToken, D = CommaSymbol: the while loop
RECURSIVE NonEmptyItems_while(_, _, _)
NonEmptyItems_while(ix, items, delimiters) ==
    The({ IF ~d.ok
          THEN Built(TRUE, ix, NonEmptyItems_node(items, delimiters))
          ELSE The({ IF ~t.ok
                     THEN Built(FALSE, t.index, NoNode)
                     ELSE NonEmptyItems_while(t.index, Append(items, t.node),
                                              Append(delimiters, d.node))
                     : t \in {Token_node(d.index, "atom")} })
          : d \in {Token_node(ix, ",")} })

\* NonEmptyItems::parse with the first item only
NonEmptyItems_first(ix) ==
    The({ IF ~t.ok THEN Built(FALSE, ix, NoNode)
          ELSE Built(TRUE, t.index, NonEmptyItems_node(<<t.node>>, <<>>))
          : t \in {Token_node(ix, "atom")} })

\* NonEmptyItems::parse, T = AtomToken, D = CommaSymbol
NonEmptyItems_AtomToken(ix) ==
    The({ IF ~t.ok THEN Built(FALSE, ix, NoNode)
          ELSE NonEmptyItems_while(t.index, <<t.node>>, <<>>)
          : t \in {Token_node(ix, "atom")} })

\* Maybe with its Span (generics.rs:30-42): an absent item has the next
\* token's start as start and the previous token's end as end
Maybe_node(item, prev, next) ==
    IF item.ok
    THEN [kind |-> "Maybe", start |-> item.node.start, end |-> item.node.end,
          children |-> <<item.node>>, expanded |-> item.node.expanded]
    ELSE [kind |-> "Maybe", start |-> next, end |-> prev,
          children |-> <<>>, expanded |-> FALSE]

\* Maybe::parse under Items<AtomToken>: lexer.parse().ok() leaves the cursor
\* where it was when the item does not parse
Items_AtomToken(ix) ==
    The({ Built(TRUE, IF r.ok THEN r.index ELSE ix,
                 Maybe_node(r, prev_token_end_position(ix),
                            next_token_start_position(ix)))
          : r \in {NonEmptyItems_AtomToken(ix)} })

\* Parenthesized<Items<AtomToken>>: `(`, the items, `)`
Parenthesized_Items_AtomToken(ix) ==
    The({ IF ~open.ok THEN Built(FALSE, ix, NoNode)
          ELSE The({ The({ IF ~close.ok THEN Built(FALSE, close.index, NoNode)
                           ELSE Built(TRUE, close.index,
                                       Struct_node("Parenthesized",
                                              <<open.node, item.node,
                                                close.node>>))
                           : close \in {Token_node(item.index, ")")} })
                     : item \in {Items_AtomToken(open.index)} })
          : open \in {Token_node(ix, "(")} })

\* MaybeRepeat with its Span (generics.rs:243-251)
MaybeRepeat_node(items) ==
    [kind |-> "MaybeRepeat", start |-> items[1].start,
     end |-> items[Len(items)].end, children |-> items,
     expanded |-> \E i \in 1..Len(items) : items[i].expanded]

\* MaybeRepeat::parse, T = AtomToken: the while loop
RECURSIVE MaybeRepeat_while(_, _)
MaybeRepeat_while(ix, items) ==
    The({ IF ~t.ok THEN Built(TRUE, ix, MaybeRepeat_node(items))
          ELSE MaybeRepeat_while(t.index, Append(items, t.node))
          : t \in {Token_node(ix, "atom")} })

\* MaybeRepeat::parse, T = AtomToken
MaybeRepeat_AtomToken(ix) ==
    The({ IF ~t.ok THEN Built(FALSE, ix, NoNode)
          ELSE MaybeRepeat_while(t.index, <<t.node>>)
          : t \in {Token_node(ix, "atom")} })

\* ts.peek::<(CloseParenSymbol, DotSymbol)>()
peek_close_dot(ix) ==
    /\ ix + 1 < Len(tokens)
    /\ tokens[ix + 1].kind = ")"
    /\ tokens[ix + 2].kind = "."

\* MacroReplacement with its Span (macros.rs:101-113)
MacroReplacement_node(toks, start_position) ==
    [kind |-> "MacroReplacement",
     start |-> IF toks = <<>> THEN start_position ELSE toks[1].start,
     end |-> IF toks = <<>> THEN start_position ELSE toks[Len(toks)].end,
     children |-> toks,
     expanded |-> \E i \in 1..Len(toks) : toks[i].expanded]

\* MacroReplacement::parse: the while loop; ts.parse() of a Token fails at
\* the end of the stream only
RECURSIVE MacroReplacement_while(_, _, _)
MacroReplacement_while(ix, toks, start_position) ==
    IF peek_close_dot(ix)
    THEN Built(TRUE, ix, MacroReplacement_node(toks, start_position))
    ELSE IF ix >= Len(tokens) THEN Built(FALSE, ix, NoNode)
    ELSE MacroReplacement_while(ix + 1, Append(toks, Leaf(tokens[ix + 1])),
                                start_position)

\* MacroReplacement::parse
MacroReplacement_parse(ix) ==
    MacroReplacement_while(ix, <<>>, next_token_start_position(ix))

\* the end of a define directive: `,`, the replacement, `)`, `.`
DefineTail_parse(ix) ==
    The({ IF ~comma.ok THEN Built(FALSE, ix, NoNode)
          ELSE The({ IF ~r.ok THEN Built(FALSE, r.index, NoNode)
                     ELSE Built(TRUE, r.index + 2,
                                 Struct_node("DefineTail",
                                        <<comma.node, r.node,
                                          Leaf(tokens[r.index + 1]),
                                          Leaf(tokens[r.index + 2])>>))
                     : r \in {MacroReplacement_parse(comma.index)} })
          : comma \in {Token_node(ix, ",")} })

\* a Form: the tokens up to and with the next `.`
RECURSIVE Form_while(_, _)
Form_while(ix, toks) ==
    IF ix >= Len(tokens) THEN Built(FALSE, ix, NoNode)
    ELSE IF tokens[ix + 1].kind = "."
    THEN Built(TRUE, ix + 1,
                Struct_node("Form", Append(toks, Leaf(tokens[ix + 1]))))
    ELSE Form_while(ix + 1, Append(toks, Leaf(tokens[ix + 1])))

\* Eof with its Span (module.rs:42-56)
Eof_node(position) ==
    [kind |-> "Eof", start |-> position, end |-> position,
     children |-> <<>>, expanded |-> FALSE]

\* Module with a region that ends with its last form
Module_node_forms(forms, end) ==
    [kind |-> "Module", start |-> 0,
     end |-> IF forms = <<>> THEN 0 ELSE forms[Len(forms)].end - 1,
     children |-> Append(forms, end),
     expanded |-> \E i \in 1..Len(forms) : forms[i].expanded]

\* Module with its Span (module.rs:12-20): position 0 to eof.position
Module_node(forms, end) ==
    [kind |-> "Module", start |-> 0, end |-> end.end,
     children |-> Append(forms, end),
     expanded |-> \E i \in 1..Len(forms) : forms[i].expanded]

\* Module::parse: the while loop over forms, then the Eof
RECURSIVE Module_while(_, _)
Module_while(ix, forms) ==
    IF ix >= Len(tokens)
    THEN Built(TRUE, ix,
                Module_node(forms, Eof_node(next_token_start_position(ix))))
    ELSE The({ IF ~f.ok THEN Built(FALSE, f.index, NoNode)
               ELSE Module_while(f.index, Append(forms, f.node))
               : f \in {Form_while(ix, <<>>)} })

\* Module::parse
Module_parse(ix) == Module_while(ix, <<>>)

----------------------------------------------------------------------------
(* The node specification: a source text with macro invocations is parsed  *)
(* as one of the nodes above; a parsed list is then formatted               *)

SourceKinds == {"atom", ",", "(", ")", "."}

\* what macro invocations of the text expand to
Expansions == {<<"atom", ",", "atom">>, <<"(", ")">>}

\* a word of the text: a token, or a macro invocation with its expansion
Words ==
    {[kinds |-> <<k>>, expanded |-> FALSE] : k \in SourceKinds}
        \cup {[kinds |-> ks, expanded |-> TRUE] : ks \in Expansions}

\* the tokens of word w at offset `at`, the first being token p; a token is
\* one character wide, an invocation two, and the tokens of an expansion
\* all have the span of the invocation (Macro::expand)
WordTokens(w, p, at) ==
    [i \in 1..Len(w.kinds) |->
        [set_span(SourceToken(w.kinds[i], w.kinds[i], p + i - 1, at),
                  Span(at, at + (IF w.expanded THEN 2 ELSE 1)))
         EXCEPT !.expanded = w.expanded]]

\* the blanks before word j of a text: none before every third word
Blank(j) == IF j % 3 = 0 THEN 0 ELSE 1

\* the token vector of a text
RECURSIVE Lay(_, _, _, _)
Lay(words, j, at, acc) ==
    IF j > Len(words) THEN acc
    ELSE Lay(words, j + 1,
             at + Blank(j) + (IF words[j].expanded THEN 2 ELSE 1),
             acc \o WordTokens(words[j], Len(acc), at + Blank(j)))

InitNode ==
    /\ tokens \in {Lay(ws, 1, 0, <<>>) : ws \in SeqsUpTo(Words, MaxWords)}
    /\ fmt \in {Formatter(0, MaxColumns, m) : m \in BOOLEAN}
    /\ node = NoNode
    /\ created = tokens
    /\ index = 0
    /\ last_error = None
    /\ last = NoCall
    /\ run = <<>>
    /\ rewound = FALSE
    /\ pc = "idle"
    /\ arg_tokens = <<>>
    /\ level = ZeroLevel
    /\ hist = <<>>
    /\ define = NoDefine
    /\ macro = NoMacro
    /\ expansion = <<>>

nodeVars == <<tokens, created, last_error, run, rewound, arg_tokens, level,
              hist, define, macro, expansion>>

\* a parser was run at the cursor
Finish(op, out) ==
    /\ index' = out.index
    /\ node' = out.node
    /\ pc' = IF out.ok THEN "parsed" ELSE "failed"
    /\ last' = [op |-> op, entry |-> index, ret |-> IF out.ok THEN Ok(<<>>) ELSE None]
    /\ UNCHANGED <<fmt, nodeVars>>

ParseParenthesized ==
    /\ pc = "idle"
    /\ \E out \in {Parenthesized_Items_AtomToken(index)} :
           Finish("Parenthesized", out)

ParseNonEmptyItems ==
    /\ pc = "idle"
    /\ \E out \in {NonEmptyItems_AtomToken(index)} :
           Finish("NonEmptyItems", out)

ParseMaybeRepeat ==
    /\ pc = "idle"
    /\ \E out \in {MaybeRepeat_AtomToken(index)} : Finish("MaybeRepeat", out)

ParseDefineTail ==
    /\ pc = "idle"
    /\ \E out \in {DefineTail_parse(index)} : Finish("DefineTail", out)

ParseModule ==
    /\ pc = "idle"
    /\ \E out \in {Module_parse(index)} : Finish("Module", out)

\* NonEmptyItems::format of the list that was parsed
FormatItems ==
    /\ pc = "parsed"
    /\ last.op = "NonEmptyItems"
    /\ fmt' = NonEmptyItems_format(node, fmt)
    /\ pc' = "formatted"
    /\ UNCHANGED <<index, node, last, nodeVars>>

NextNode ==
    \/ ParseParenthesized
    \/ ParseNonEmptyItems
    \/ ParseMaybeRepeat
    \/ ParseDefineTail
    \/ ParseModule
    \/ FormatItems

SpecNode == InitNode /\ [][NextNode]_vars

----------------------------------------------------------------------------
(* Claims about nodes                                                       *)

\* a node and the nodes below it
RECURSIVE Nodes(_)
Nodes(n) == {n} \cup UNION {Nodes(n.children[i]) : i \in 1..Len(n.children)}

\* region(c) is within region(n)
Within(c, n) == n.start <= c.start /\ c.end <= n.end

Contains(n) == \A i \in 1..Len(n.children) : Within(n.children[i], n)

\* the children of n are in source order
InOrder(n) ==
    \A i \in 1..(Len(n.children) - 1) :
        n.children[i].end <= n.children[i + 1].start

\* C17 (as the code has it): every child's region is within its node's
\* region; the children are in source order when no token below the node
\* comes from a macro expansion (the tokens of one expansion all have the
\* region of the invocation, so that children made of them overlap).
C17_RegionsNestAndSourceTokensAreOrdered ==
    pc = "parsed" =>
        \A n \in Nodes(node) :
            /\ Contains(n)
            /\ ~n.expanded => InOrder(n)

\* C17 (as stated): every child's region is within its node's region and
\* the children are in source order.
C17_RegionsNestInSourceOrder ==
    pc = "parsed" => \A n \in Nodes(node) : Contains(n) /\ InOrder(n)

\* `( )` written in the source: the absent list between the brackets has the
\* start of `)` as start and the end of `(` as end
C17_Witness ==
    /\ pc = "parsed"
    /\ node.kind = "Parenthesized"
    /\ ~node.expanded
    /\ node.children[2].children = <<>>
    /\ node.children[2].start > node.children[2].end


\* token j (from 0) after the cursor ix fits the shape T (D T)*: an atom
\* when j is even, a `,` when j is odd
Alternates(ix, j) ==
    /\ ix + j < Len(tokens)
    /\ tokens[ix + j + 1].kind = (IF j % 2 = 0 THEN "atom" ELSE ",")

\* the number of tokens at ix that fit the shape, one after the other
ShapeLen(ix) ==
    CHOOSE p \in 0..(Len(tokens) - ix) :
        /\ \A j \in 0..(p - 1) : Alternates(ix, j)
        /\ ~Alternates(ix, p)

\* a piece of the output that is an item or a delimiter
IsText(piece) == piece.kind \in {"item", "delimiter"}

\* C18: NonEmptyItems::parse succeeds exactly when the tokens at the cursor
\* that alternate between item and delimiter end with an item; it then
\* consumes exactly these tokens, its items being one more than its
\* delimiters; a missing first item or a delimiter with no item after it
\* makes it fail.  NonEmptyItems::format writes item, delimiter, item, ...
\* in source order, every one exactly once.
C18_ItemsAlternateWithDelimiters ==
    /\ (pc \in {"parsed", "failed", "formatted"} /\ last.op = "NonEmptyItems") =>
           /\ (pc # "failed") <=> (ShapeLen(last.entry) % 2 = 1)
           /\ pc # "failed" =>
                  /\ index = last.entry + ShapeLen(last.entry)
                  /\ Len(node.items) = Len(node.delimiters) + 1
                  /\ Len(node.children) = ShapeLen(last.entry)
                  /\ \A k \in 1..Len(node.children) :
                         node.children[k] = Leaf(tokens[last.entry + k])
    /\ pc = "formatted" =>
           /\ Len(SelectSeq(fmt.buf, IsText)) = Len(node.children)
           /\ \A k \in 1..Len(node.children) :
                  SelectSeq(fmt.buf, IsText)[k] =
                      Piece(IF k % 2 = 1 THEN "item" ELSE "delimiter",
                            len(node.children[k]), (k + 1) \div 2)

\* a list of three items and two delimiters was parsed and formatted
C18_Witness ==
    /\ pc = "formatted"
    /\ Len(node.items) = 3
    /\ Len(node.delimiters) = 2
    /\ index < Len(tokens)

----------------------------------------------------------------------------
(* RecordAccessOrUpdateExpr::resume_parse (items/expressions/records.rs)    *)

\* most `#` links after the value of a record expression
MaxLinks == 2

\* ts.peek::<(SharpSymbol, (AtomToken, DotSymbol))>().is_some(): the cursor
\* does not move
peek_sharp_atom_dot(ix) ==
    /\ ix + 2 < Len(tokens)
    /\ tokens[ix + 1].kind = "#"
    /\ tokens[ix + 2].kind = "atom"
    /\ tokens[ix + 3].kind = "."

\* the fields of a struct parsed one after the other at ix: the kinds of
\* token they are; the parse fails at the first that is not there
RECURSIVE Fields_parse(_, _, _)
Fields_parse(ix, kinds, acc) ==
    IF kinds = <<>> THEN Built(TRUE, ix, [kind |-> "fields", children |-> acc])
    ELSE The({ IF ~t.ok THEN Built(FALSE, ix, NoNode)
               ELSE Fields_parse(t.index, Tail(kinds), Append(acc, t.node))
               : t \in {Token_node(ix, Head(kinds))} })

\* RecordIndexExpr (derived Parse): `#`, name, `.`, field
RecordIndexExpr_parse(ix) ==
    The({ IF ~r.ok THEN r
          ELSE Built(TRUE, r.index,
                     Struct_node("RecordIndexExpr", r.node.children))
          : r \in {Fields_parse(ix, <<"#", "atom", ".", "atom">>, <<>>)} })

\* TupleLike<RecordField>: `{`, the fields, `}`; a field stands as one atom
RECURSIVE TupleLike_while(_, _)
TupleLike_while(ix, acc) ==
    The({ IF t.ok THEN TupleLike_while(t.index, Append(acc, t.node))
          ELSE The({ IF ~close.ok THEN Built(FALSE, ix, NoNode)
                     ELSE Built(TRUE, close.index,
                                Struct_node("TupleLike",
                                            Append(acc, close.node)))
                     : close \in {Token_node(ix, "}")} })
          : t \in {Token_node(ix, "atom")} })

TupleLike_parse(ix) ==
    The({ IF ~open.ok THEN Built(FALSE, ix, NoNode)
          ELSE TupleLike_while(open.index, <<open.node>>)
          : open \in {Token_node(ix, "{")} })

\* RecordAccessExpr::resume_parse
RecordAccessExpr_resume_parse(ix, value) ==
    The({ IF ~r.ok THEN r
          ELSE Built(TRUE, r.index, Struct_node("Access", <<value, r.node>>))
          : r \in {RecordIndexExpr_parse(ix)} })

\* RecordUpdateExpr::resume_parse
RecordUpdateExpr_resume_parse(ix, value) ==
    The({ IF ~r.ok THEN r
          ELSE The({ IF ~f.ok THEN f
                     ELSE Built(TRUE, f.index,
                                Struct_node("Update",
                                            <<value, r.node.children[1],
                                              r.node.children[2], f.node>>))
                     : f \in {TupleLike_parse(r.index)} })
          : r \in {Fields_parse(ix, <<"#", "atom">>, <<>>)} })

\* RecordAccessOrUpdateExpr::resume_parse that never looks ahead
RecordAccessOrUpdateExpr_resume_parse_update(ix, value) ==
    RecordUpdateExpr_resume_parse(ix, value)

\* RecordAccessOrUpdateExpr::resume_parse
RecordAccessOrUpdateExpr_resume_parse(ix, value) ==
    IF peek_sharp_atom_dot(ix)
    THEN RecordAccessExpr_resume_parse(ix, value)
    ELSE RecordUpdateExpr_resume_parse(ix, value)

----------------------------------------------------------------------------
(* The record specification: a value, then resume_parse as long as it      *)
(* succeeds                                                                 *)

\* the texts a link after the value is drawn from, whole and cut short
LinkTexts ==
    {<<"#", "atom", ".", "atom">>, <<"#", "atom", "{", "}">>,
     <<"#", "atom", "{", "atom", "}">>, <<"#", "atom", ".">>,
     <<"#", "atom", "{">>, <<"#", "atom">>, <<"#", ".">>, <<".", "atom">>}

ValueKinds == {"variable", "integer"}

RECURSIVE Concat(_)
Concat(texts) == IF texts = <<>> THEN <<>> ELSE Head(texts) \o Concat(Tail(texts))

\* the tokens of a text, one column each, nothing between them
Adjacent(kinds) ==
    [i \in 1..Len(kinds) |-> SourceToken(kinds[i], kinds[i], i - 1, i - 1)]

RecordTexts ==
    {<<v>> \o Concat(links) :
        v \in ValueKinds, links \in SeqsUpTo(LinkTexts, MaxLinks)}

InitRecord ==
    /\ tokens \in {Adjacent(t) : t \in RecordTexts}
    /\ fmt = NoFormatter
    /\ node = NoNode
    /\ created = tokens
    /\ index = 0
    /\ last_error = None
    /\ last = NoCall
    /\ run = <<>>
    /\ rewound = FALSE
    /\ pc = "idle"
    /\ arg_tokens = <<>>
    /\ level = ZeroLevel
    /\ hist = <<>>
    /\ define = NoDefine
    /\ macro = NoMacro
    /\ expansion = <<>>

\* the value V is parsed: one token
ParseValue ==
    /\ pc = "idle"
    /\ node' = Leaf(tokens[1])
    /\ index' = 1
    /\ pc' = "value"
    /\ last' = [op |-> "value", entry |-> 0, ret |-> Ok(<<>>),
                value |-> NoNode, n |-> 0]
    /\ UNCHANGED <<fmt, nodeVars>>

\* RecordAccessOrUpdateExpr::resume_parse(ts, value), the value being the
\* node built so far; on failure the value stays what it was
ResumeParse ==
    /\ pc = "value"
    /\ \E out \in {RecordAccessOrUpdateExpr_resume_parse(index, node)} :
           /\ index' = out.index
           /\ node' = IF out.ok THEN out.node ELSE node
           /\ pc' = IF out.ok THEN "value" ELSE "failed"
           /\ last' = [op |-> "resume_parse", entry |-> index,
                       ret |-> IF out.ok THEN Ok(<<>>) ELSE None,
                       value |-> node,
                       n |-> IF out.ok THEN last.n + 1 ELSE last.n]
    /\ UNCHANGED <<fmt, nodeVars>>

NextRecord ==
    \/ ParseValue
    \/ ResumeParse

SpecRecord == InitRecord /\ [][NextRecord]_vars

----------------------------------------------------------------------------
(* Claims about record expressions                                          *)

\* the value at the far left of a chain, and the number of links around it
RECURSIVE Leftmost(_)
Leftmost(n) ==
    IF n.kind \in {"Access", "Update"} THEN Leftmost(n.children[1]) ELSE n

RECURSIVE Links(_)
Links(n) ==
    IF n.kind \in {"Access", "Update"} THEN 1 + Links(n.children[1]) ELSE 0

\* the tokens below a node, from left to right
RECURSIVE Leaves(_)
Leaves(n) ==
    IF n.children = <<>> THEN <<n>>
    ELSE Concat([i \in 1..Len(n.children) |-> Leaves(n.children[i])])

\* C20: resume_parse on a value V builds an Access exactly when the three
\* tokens at the cursor are `#`, an atom and `.`, and otherwise only an
\* Update; the look at the three tokens consumes nothing, the node's tokens
\* being V's and then the tokens from the cursor on; the left child is V as
\* it was, so that after k links the first value is k levels down on the
\* left and the last link is the outermost node.
C20_LookaheadChoosesAccessAndKeepsValue ==
    /\ last.op = "resume_parse" =>
           /\ last.ret.ok =>
                  /\ node.kind =
                         (IF peek_sharp_atom_dot(last.entry) THEN "Access"
                                                            ELSE "Update")
                  /\ node.children[1] = last.value
                  /\ Leaves(node) =
                         [i \in 1..index |-> Leaf(tokens[i])]
                  /\ index > last.entry
                  /\ tokens[last.entry + 1].kind = "#"
           /\ ~last.ret.ok => node = last.value
           /\ (~last.ret.ok /\ peek_sharp_atom_dot(last.entry)) =>
                  ~(/\ last.entry + 3 < Len(tokens)
                    /\ tokens[last.entry + 4].kind = "atom")
    /\ pc \in {"value", "failed"} =>
           /\ Links(node) = last.n
           /\ Leftmost(node) = Leaf(tokens[1])

\* V#atom.atom#atom.atom: the outer node is the second access, its left
\* child the first access, whose left child is V
C20_Witness ==
    /\ pc = "value"
    /\ node.kind = "Access"
    /\ node.children[1].kind = "Access"
    /\ node.children[1].children[1] = Leaf(tokens[1])
    /\ node.children[2].children[1] = Leaf(tokens[6])

----------------------------------------------------------------------------
(* BinaryOpLike and the BinaryOpStyle of its delimiters                     *)
(*                                                                         *)
(* BinaryOpLike<L, D, R> is a left operand, a delimiter and a right        *)
(* operand.  Where it breaks is read off the formatted texts of the tests: *)
(* the delimiter stays on the line of the left operand and the right       *)
(* operand begins the next line, indent_offset columns right of the column *)
(* the construct began at.                                                  *)

\* longest text of an operand
MaxOperand == 3

\* impl BinaryOpStyle for ComprehensionDelimiter
ComprehensionDelimiter ==
    [name |-> "||", indent_offset |-> 2, allow_newline |-> TRUE,
     should_pack |-> FALSE]

\* impl BinaryOpStyle for RecordFieldDelimiter
RecordFieldDelimiter ==
    [name |-> "=", indent_offset |-> 4, allow_newline |-> TRUE,
     should_pack |-> FALSE]

\* the style of an operator of a chain such as `+`
BinaryOp ==
    [name |-> "+", indent_offset |-> 0, allow_newline |-> TRUE,
     should_pack |-> TRUE]

Styles == {ComprehensionDelimiter, RecordFieldDelimiter, BinaryOp}

\* BinaryOpLike { left, delimiter, right }, the texts of the given lengths
\* with one blank around the delimiter; `base` is the column the construct
\* began at, and `shown` what a test of the sources shows for it
BinaryOpLike(left, op, right, style, base, shown) ==
    [kind |-> "BinaryOpLike",
     left |-> Element("left", 0, left),
     delimiter |-> Element(style.name, left + 1, left + 1 + op),
     right |-> Element("right", left + op + 2, left + op + 2 + right),
     style |-> style, base |-> base, expect |-> shown,
     start |-> 0, end |-> left + op + 2 + right, children |-> <<>>]

\* the too_long condition: the right operand after a blank passes
\* max_columns
too_long(f, right) == current_column(f) + 1 + len(right) > max_columns(f)

\* BinaryOpLike::format with the break taken before the delimiter
BinaryOpLike_format_before(self, f) ==
    The({ [format_item(
               needs_space(
                   format_item(
                       IF /\ self.style.allow_newline
                          /\ current_column(g) + 1 + len(self.delimiter) + 1
                                 + len(self.right) > max_columns(g)
                       THEN needs_newline(g)
                       ELSE needs_space(g),
                       Piece("delimiter", len(self.delimiter), 1))),
               Piece("item", len(self.right), 2))
           EXCEPT !.indent = f.indent]
          : g \in {format_item(
                       [f EXCEPT !.indent = self.base + self.style.indent_offset],
                       Piece("item", len(self.left), 1))} })

\* BinaryOpLike::format
BinaryOpLike_format(self, f) ==
    The({ [format_item(
               IF self.style.allow_newline /\ too_long(g, self.right)
               THEN needs_newline(g)
               ELSE needs_space(g),
               Piece("item", len(self.right), 2))
           EXCEPT !.indent = f.indent]
          : g \in {format_item(
                       needs_space(
                           format_item(
                               [f EXCEPT !.indent =
                                   self.base + self.style.indent_offset],
                               Piece("item", len(self.left), 1))),
                       Piece("delimiter", len(self.delimiter), 1))} })

----------------------------------------------------------------------------
(* The operator specification: a BinaryOpLike is formatted after the text  *)
(* that precedes it on its line                                             *)

NoExpect == [test |-> "", break |-> FALSE, column |-> 0]

Expect(test, break, column) ==
    [test |-> test, break |-> break, column |-> column]

\* the texts of the tests that show a BinaryOpLike or an operator chain at
\* max_columns 20: what precedes the left operand on its line, the
\* construct, and the options
TestCases ==
    {[lead |-> 2, max |-> 20,
      op |-> BinaryOpLike(5, 2, 14, ComprehensionDelimiter, 2,
                          Expect("bitstrings.rs:141", TRUE, 4))],
     [lead |-> 5, max |-> 20,
      op |-> BinaryOpLike(3, 1, 1, RecordFieldDelimiter, 5,
                          Expect("records.rs:156", FALSE, 11))],
     [lead |-> 5, max |-> 20,
      op |-> BinaryOpLike(3, 1, 10, RecordFieldDelimiter, 5,
                          Expect("records.rs:157", TRUE, 9))],
     [lead |-> 14, max |-> 20,
      op |-> BinaryOpLike(3, 1, 1, RecordFieldDelimiter, 14,
                          Expect("records.rs:194", TRUE, 18))],
     [lead |-> 10, max |-> 20,
      op |-> BinaryOpLike(8, 1, 1, BinaryOp, 6,
                          Expect("blocks.rs:316", TRUE, 6))]}

\* small constructs of every style
SmallCases ==
    {[lead |-> lead, max |-> max,
      op |-> BinaryOpLike(left, Len(style.name), right, style, lead, NoExpect)] :
        lead \in 0..MaxLead, max \in (MaxColumns - 2)..MaxColumns,
        left \in 1..MaxOperand, right \in 1..MaxOperand, style \in Styles}

InitBinaryOp ==
    /\ \E c \in TestCases \cup SmallCases :
           /\ node = c.op
           /\ fmt = Formatter(c.lead, c.max, FALSE)
    /\ tokens = <<>>
    /\ created = tokens
    /\ index = 0
    /\ last_error = None
    /\ last = NoCall
    /\ run = <<>>
    /\ rewound = FALSE
    /\ pc = "idle"
    /\ arg_tokens = <<>>
    /\ level = ZeroLevel
    /\ hist = <<>>
    /\ define = NoDefine
    /\ macro = NoMacro
    /\ expansion = <<>>

FormatBinaryOp ==
    /\ pc = "idle"
    /\ fmt' = BinaryOpLike_format(node, fmt)
    /\ pc' = "formatted"
    /\ UNCHANGED formatVars

NextBinaryOp == FormatBinaryOp

SpecBinaryOp == InitBinaryOp /\ [][NextBinaryOp]_vars

----------------------------------------------------------------------------
(* Claims about operators                                                   *)

\* the place in the buffer of the delimiter
DelimiterAt(buf) == CHOOSE k \in 1..Len(buf) : buf[k].kind = "delimiter"

\* a line break was taken
Broken(buf) == \E k \in 1..Len(buf) : buf[k].kind = "newline"

\* C21 (as the code has it): a line break in a BinaryOpLike, when one is
\* taken, is placed after the delimiter: the delimiter follows the left
\* operand on its line after a blank, and the right operand is the first
\* text of the next line, indent_offset columns right of the column the
\* construct began at; the formatted texts of the tests are laid out so.
C21_BreakIsAfterTheOperator ==
    pc = "formatted" =>
        /\ fmt.buf[DelimiterAt(fmt.buf) - 1].kind = "space"
        /\ fmt.buf[DelimiterAt(fmt.buf) - 2] = Piece("item", len(node.left), 1)
        /\ Broken(fmt.buf) =>
               /\ fmt.buf[DelimiterAt(fmt.buf) + 1] =
                      Piece("newline",
                            node.base + node.style.indent_offset, 0)
               /\ fmt.buf[DelimiterAt(fmt.buf) + 2] =
                      Piece("item", len(node.right), 2)
               /\ Len(fmt.buf) = DelimiterAt(fmt.buf) + 2
        /\ node.expect.test # "" =>
               /\ Broken(fmt.buf) = node.expect.break
               /\ Column(SubSeq(fmt.buf, 1, Len(fmt.buf) - 1))
                      = node.expect.column

\* C21 (as stated): a line break, when one is taken, is placed before the
\* delimiter, which is the first text of the continuation line.
C21_BreakIsBeforeTheOperator ==
    (pc = "formatted" /\ Broken(fmt.buf)) =>
        fmt.buf[DelimiterAt(fmt.buf) - 1].kind = "newline"

\* `baz =` with `{bar, baz}` on the next line (records.rs:157-158)
C21_Witness ==
    /\ pc = "formatted"
    /\ node.expect.test = "records.rs:157"
    /\ Broken(fmt.buf)
    /\ LineOf(fmt.buf, DelimiterAt(fmt.buf)) = 0
    /\ LineOf(fmt.buf, Len(fmt.buf)) = 1

----------------------------------------------------------------------------
(* Module::format (items/module.rs)                                         *)
(*                                                                         *)
(* The buffer also keeps, as pieces without text, where a subregion was    *)
(* entered and left (history).                                              *)

\* Formatter::with_subregion with RegionOptions::new(): entering region i;
\* the indent stays
subregion_new(f, i) == [f EXCEPT !.buf = Append(f.buf, Piece("enter", 0, i))]

\* Formatter::with_subregion with RegionOptions::new(): leaving region i
end_subregion_new(f, i, outer) ==
    [f EXCEPT !.buf = Append(f.buf, Piece("leave", 0, i)),
              !.indent = outer.indent]

\* the forms of a Module: its children but the Eof
Module_forms(self) == SubSeq(self.children, 1, Len(self.children) - 1)

\* Module::format that asks for no newline after a form
RECURSIVE Module_format_joined(_, _)
Module_format_joined(self, f) ==
    IF Module_forms(self) = <<>>
    THEN format_item(f, Piece("eof", 0, 0))
    ELSE format_item(
             Module_format_joined(
                 [self EXCEPT !.children = Tail(self.children)], f),
             Piece("form", len(self.children[1]), 1))

\* Module::format: the loop over the forms, from form i
RECURSIVE Module_format_loop(_, _, _)
Module_format_loop(self, f, i) ==
    IF i > Len(Module_forms(self)) THEN f
    ELSE The({ Module_format_loop(self, needs_newline(g), i + 1)
               : g \in {end_subregion_new(
                            format_item(subregion_new(f, i),
                                        Piece("form",
                                              len(Module_forms(self)[i]), i)),
                            i, f)} })

\* Module::format: the forms, then the Eof, which has no text
Module_format(self, f) ==
    format_item(Module_format_loop(self, f, 1), Piece("eof", 0, 0))

----------------------------------------------------------------------------
(* The module specification: a text is parsed as a Module, which is then   *)
(* formatted                                                                *)

FormatModule ==
    /\ pc = "parsed"
    /\ last.op = "Module"
    /\ fmt' = Module_format(node, fmt)
    /\ pc' = "written"
    /\ UNCHANGED <<index, node, last, nodeVars>>

NextModule ==
    \/ ParseModule
    \/ FormatModule

SpecModule == InitNode /\ [][NextModule]_vars

----------------------------------------------------------------------------
(* Claims about modules                                                     *)

\* a piece of the output that is a form, or the entry or exit of a region
IsFormOrRegion(piece) == piece.kind \in {"enter", "form", "leave"}

\* a piece of the output that is text or a line break
IsWritten(piece) == piece.kind = "newline" \/ piece.len > 0

\* C22: Module::parse succeeds exactly when the text is empty or ends with
\* the `.` of a form; it then has consumed every token, and its forms hold
\* the tokens in source order, each form ending at its only `.`; a form that
\* cannot be parsed fails the whole parse.  Module::format writes the forms
\* in that order, each between the entry and the exit of a subregion of its
\* own and each followed by a line break, so that the output of a module
\* with a form ends with a line break.
C22_ModuleIsItsFormsInOrder ==
    /\ (last.op = "Module" /\ pc = "failed") =>
           /\ tokens # <<>>
           /\ tokens[Len(tokens)].kind # "."
           /\ node = NoNode
    /\ (last.op = "Module" /\ pc \in {"parsed", "written"}) =>
           /\ tokens = <<>> \/ tokens[Len(tokens)].kind = "."
           /\ index = Len(tokens)
           /\ Concat([i \in 1..Len(Module_forms(node)) |->
                         Leaves(Module_forms(node)[i])])
                  = [i \in 1..Len(tokens) |-> Leaf(tokens[i])]
           /\ \A i \in 1..Len(Module_forms(node)) :
                  \A k \in 1..Len(Module_forms(node)[i].children) :
                      (Module_forms(node)[i].children[k].kind = ".")
                          <=> (k = Len(Module_forms(node)[i].children))
           /\ node.children[Len(node.children)] = Eof_node(TextEnd)
    /\ pc = "written" =>
           /\ SelectSeq(fmt.buf, IsFormOrRegion) =
                  [k \in 1..(3 * Len(Module_forms(node))) |->
                      CASE k % 3 = 1 -> Piece("enter", 0, (k + 2) \div 3)
                        [] k % 3 = 2 ->
                               Piece("form",
                                     len(Module_forms(node)[(k + 2) \div 3]),
                                     (k + 2) \div 3)
                        [] OTHER -> Piece("leave", 0, (k + 2) \div 3)]
           /\ \A k \in 1..Len(SelectSeq(fmt.buf, IsWritten)) :
                  SelectSeq(fmt.buf, IsWritten)[k].kind = "form" =>
                      /\ k < Len(SelectSeq(fmt.buf, IsWritten))
                      /\ SelectSeq(fmt.buf, IsWritten)[k + 1] =
                             Piece("newline", 0, 0)
           /\ Module_forms(node) # <<>> =>
                  SelectSeq(fmt.buf, IsWritten)
                      [Len(SelectSeq(fmt.buf, IsWritten))].kind = "newline"

\* a module of two forms was parsed and written
C22_Witness ==
    /\ pc = "written"
    /\ Len(Module_forms(node)) = 2
    /\ Len(Module_forms(node)[1].children) > 1

----------------------------------------------------------------------------
(* Nested transactions and peeks (src/src/lexer.rs)                         *)
(*                                                                         *)
(* The closure handed to the outer with_transaction or with_peek is a      *)
(* script of steps: a read_expect, or an inner with_transaction or         *)
(* with_peek around a closure script of reads.  The trace has one record   *)
(* per step: the cursor at its entry, where its closure left the cursor,   *)
(* the cursor at its exit, and whether it returned Ok.                     *)

\* most reads of an inner closure
MaxInner == 1
\* most steps of an outer closure
MaxOuter == 2

\* the inner closures: reads of atoms propagated with `?`, and reads
\* followed by an error of the closure's own
Inner ==
    {[steps |-> s, verdict |-> "prop"] : s \in SeqsUpTo({"atom"}, MaxInner)}
        \cup {[steps |-> [i \in 1..MaxInner |-> "atom"], verdict |-> "err"]}

NoScript == [steps |-> <<>>, verdict |-> "ok"]

OuterSteps ==
    {[op |-> "read", body |-> NoScript]}
        \cup {[op |-> o, body |-> b] : o \in {"tx", "peek"}, b \in Inner}

Outer == [steps : SeqsUpTo(OuterSteps, MaxOuter), verdict : Verdicts]

\* what a step of the outer closure leaves, run from ix
RunStep(step, ix) ==
    CASE step.op = "read" -> read_expect(ix, "atom")
      [] step.op = "tx" -> with_transaction(ix, RunScript(step.body, ix))
      [] OTHER -> with_peek(ix, RunScript(step.body, ix))

Traced(step, ix, r) ==
    [op |-> step.op, entry |-> ix,
     inner |-> IF step.op = "read" THEN r.index
               ELSE RunScript(step.body, ix).index,
     exit |-> r.index, ok |-> r.res.ok]

\* the steps of the outer closure from ix; `strict` propagates the first
\* error with `?`
RECURSIVE RunOuterSteps(_, _, _, _, _)
RunOuterSteps(steps, strict, ix, reads, trace) ==
    IF steps = <<>>
    THEN [index |-> ix, res |-> Ok(reads), reads |-> reads, trace |-> trace]
    ELSE The({ IF ~r.res.ok /\ strict
               THEN [index |-> r.index, res |-> r.res,
                     reads |-> reads \o r.reads,
                     trace |-> Append(trace, Traced(Head(steps), ix, r))]
               ELSE RunOuterSteps(Tail(steps), strict, r.index,
                                  reads \o r.reads,
                                  Append(trace, Traced(Head(steps), ix, r)))
               : r \in {RunStep(Head(steps), ix)} })

RunOuter(s, ix) ==
    The({ IF s.verdict = "err" THEN [r EXCEPT !.res = Err(ClosureError)] ELSE r
          : r \in {RunOuterSteps(s.steps, s.verdict = "prop", ix, <<>>, <<>>)} })

\* a stream with the cursor at its start
InitNested ==
    /\ InitWith(LexStreams)

\* an outer call `op` that left `out`, its closure having left `f`
NestedCall(op, out, f) ==
    /\ index' = out.index
    /\ last' = [op |-> op, entry |-> index, ret |-> out.res, fidx |-> f.index,
                fret |-> f.res, expected |-> <<>>, n |-> 0, trace |-> f.trace]
    /\ rewound' = (out.index # index + Len(out.reads))
    /\ run' = (IF rewound THEN <<>> ELSE run) \o out.reads
    /\ pc' = "done"
    /\ UNCHANGED <<tokens, created, last_error, arg_tokens, level, hist>>
    /\ UNCHANGED macroVars
    /\ UNCHANGED layoutVars

\* progress before the outer call
NestedReadToken ==
    /\ pc = "idle"
    /\ last.op = "new"
    /\ ReadToken

NestedTransaction ==
    /\ pc = "idle"
    /\ \E s \in Outer :
           \E f \in {RunOuter(s, index)} :
               NestedCall("nested_transaction", with_transaction(index, f), f)

NestedPeek ==
    /\ pc = "idle"
    /\ \E s \in Outer :
           \E f \in {RunOuter(s, index)} :
               NestedCall("nested_peek", with_peek(index, f), f)

NextNested ==
    \/ NestedReadToken
    \/ NestedTransaction
    \/ NestedPeek

SpecNested == InitNested /\ [][NextNested]_vars

----------------------------------------------------------------------------
(* Claims about nested transactions                                         *)

\* C23: inside an outer transaction or peek, a step begins where the step
\* before it ended; an inner transaction that fails leaves the cursor at its
\* own start, one that succeeds where its closure left it, and an inner peek
\* at its own start.  An outer transaction that fails leaves the cursor at
\* the outer start whatever its steps did, one that succeeds where its last
\* step ended; an outer peek leaves the cursor where it began.
C23_NestedRestoresToOwnStart ==
    last.op \in {"nested_transaction", "nested_peek"} =>
        /\ \A i \in 1..Len(last.trace) :
               /\ last.trace[i].entry =
                      (IF i = 1 THEN last.entry ELSE last.trace[i - 1].exit)
               /\ (last.trace[i].op = "tx" /\ ~last.trace[i].ok) =>
                      last.trace[i].exit = last.trace[i].entry
               /\ (last.trace[i].op = "tx" /\ last.trace[i].ok) =>
                      last.trace[i].exit = last.trace[i].inner
               /\ last.trace[i].op = "peek" =>
                      last.trace[i].exit = last.trace[i].entry
        /\ last.fidx =
               (IF last.trace = <<>> THEN last.entry
                ELSE last.trace[Len(last.trace)].exit)
        /\ (last.op = "nested_transaction" /\ ~last.ret.ok) =>
               index = last.entry
        /\ (last.op = "nested_transaction" /\ last.ret.ok) =>
               index = last.fidx
        /\ last.op = "nested_peek" => index = last.entry

\* an outer transaction that began after the first token failed after an
\* inner transaction in it had succeeded and read a token
C23_Witness ==
    /\ last.op = "nested_transaction"
    /\ ~last.ret.ok
    /\ last.entry = 1
    /\ index = 1
    /\ \E i \in 1..Len(last.trace) :
           /\ last.trace[i].op = "tx"
           /\ last.trace[i].ok
           /\ last.trace[i].exit > last.trace[i].entry

----------------------------------------------------------------------------
(* Claims about the single pass of Macro::expand                            *)

\* the orders in which n parameters can be written
Orders(n) == {f \in [1..n -> 1..n] : \A i, j \in 1..n : f[i] = f[j] => i = j}

\* the definition and the invocation with the parameters, and the arguments
\* with them, written in the order f
Reordered(f) ==
    [variables |-> SomeVariables([i \in 1..Len(f) |-> define.variables.names[f[i]]]),
     macro |-> [macro EXCEPT !.args = [i \in 1..Len(f) |-> macro.args[f[i]]]]]

\* the expansion is the same for every order of the parameters
OrderIndependent ==
    \A f \in Orders(Len(macro.args)) :
        Macro_expand(Reordered(f).macro, Reordered(f).variables,
                     define.replacement) = expansion

\* every parameter has its argument
Paired ==
    /\ define.variables.some
    /\ macro.has_args
    /\ Len(define.variables.names) = Len(macro.args)

DistinctNames ==
    \A i, j \in 1..Len(define.variables.names) :
        define.variables.names[i] = define.variables.names[j] => i = j

\* the tokens of the expansion that an argument gave are the tokens of the
\* argument, a variable among them named as a parameter too
CopiedUnchanged ==
    \A k \in 1..Len(define.replacement) :
        ParamAt(define.replacement[k]) # 0 =>
            \A j \in 1..Len(macro.args[ParamAt(define.replacement[k])]) :
                /\ expansion[Offset(k - 1) + j].kind =
                       macro.args[ParamAt(define.replacement[k])][j].kind
                /\ expansion[Offset(k - 1) + j].value =
                       macro.args[ParamAt(define.replacement[k])][j].value

\* C24: Macro::expand substitutes in a single pass over the replacement:
\* the tokens an argument gives are copied unchanged, also a variable among
\* them that is named as a parameter.  When the parameters have pairwise
\* different names and each has its argument, the expansion is the same for
\* every order in which the parameters are written.
C24_SinglePassAndOrderOfDistinctParameters ==
    pc = "expanded" =>
        /\ CopiedUnchanged
        /\ (Paired /\ DistinctNames) => OrderIndependent

\* C24 as claimed: the expansion is the same for every order of the
\* parameters, whatever their names.
C24_SinglePassAndOrderOfParameters ==
    pc = "expanded" =>
        /\ CopiedUnchanged
        /\ Paired => OrderIndependent

\* parameters A and B with the arguments `atom` and `A`: the replacement
\* names B and then A, the expansion is `A` and then `atom`
C24_Witness ==
    /\ pc = "expanded"
    /\ Paired
    /\ define.variables.names = <<"A", "B">>
    /\ Len(macro.args[2]) = 1
    /\ macro.args[2][1].kind = "variable"
    /\ macro.args[2][1].value = "A"
    /\ macro.args[1][1].kind = "atom"
    /\ Len(define.replacement) = 2
    /\ define.replacement[1].value = "B"
    /\ define.replacement[2].value = "A"
    /\ Len(expansion) = 2
    /\ expansion[1].kind = "variable"
    /\ expansion[1].value = "A"
    /\ expansion[2].kind = "atom"

----------------------------------------------------------------------------
(* The token-collecting loops, one step per iteration                       *)
(* (MacroArg::parse and MacroReplacement::parse, src/src/items/macros.rs;   *)
(* MaybeRepeat::parse, src/src/items/generics.rs).  `hist` has one record   *)
(* per completed iteration: the cursor before and after it.  pc is "loop"   *)
(* while the loop runs, and "done" (Ok), "error" (an Err returned by `?`)   *)
(* or "panic" (a todo!()) when it has ended.                                *)

\* longest stream the loops run on
MaxLoop == 4
\* most tokens a successful parse of the T of MaybeRepeat<T> consumes
MaxConsume == 2

LoopKinds == {"atom", "(", ")", "."}

LoopStreams == {Lex(ks) : ks \in SeqsUpTo(LoopKinds, MaxLoop)}

InitLoop == InitWith(LoopStreams)

Step(from, to) == [from |-> from, to |-> to]

\* where an iteration leaves the loop
Iterated(ix, res, captured, lv, at) ==
    [index |-> ix, res |-> res, tokens |-> captured, level |-> lv, pc |-> at]

\* the loop is entered, or one iteration has run
Loop(op, entry, n, out, steps) ==
    /\ index' = out.index
    /\ pc' = out.pc
    /\ arg_tokens' = out.tokens
    /\ level' = out.level
    /\ hist' = steps
    /\ last' = [op |-> op, entry |-> entry, ret |-> out.res, consume |-> n]
    /\ UNCHANGED <<tokens, created, last_error, run, rewound>>
    /\ UNCHANGED macroVars
    /\ UNCHANGED layoutVars

\* an iteration is recorded when its body ran to the end or to a todo!()
After(out) ==
    IF out.index # index \/ out.pc = "loop"
    THEN Append(hist, Step(index, out.index))
    ELSE hist

\* a loop on a stream of n tokens is followed for n + 2 iterations
Followed == Len(hist) <= Len(tokens) + 1

\* one test of the condition of `while` in MacroArg::parse and, when it
\* holds, one run of the body
MacroArg_iteration(ix, captured, lv) ==
    IF ~(captured = <<>> \/ ~is_toplevel(lv) \/ ~peek_Either_Comma_CloseParen(ix))
    THEN Iterated(ix, Ok(captured), captured, lv, "done")
    ELSE The({ IF ~r.res.ok
               THEN Iterated(r.index, r.res, captured, lv, "error")
               ELSE IF is_macro_expanded(r.res.val[1])
               THEN Iterated(r.index, None, Append(captured, r.res.val[1]), lv,
                             "loop")
               ELSE The({ IF after.panic
                          THEN Iterated(r.index, Err(Todo), captured, lv, "panic")
                          ELSE Iterated(r.index, None,
                                        Append(captured, r.res.val[1]),
                                        after.level, "loop")
                          : after \in {Level_after(lv, r.res.val[1], r.index)} })
               : r \in {parse(ix, read_token(ix))} })

\* let mut tokens = Vec::new(); let mut level = Level::default();
MacroArgEnter ==
    /\ pc = "idle"
    /\ Loop("MacroArg", index, 1, Iterated(index, None, <<>>, ZeroLevel, "loop"),
            <<>>)

MacroArgIterate ==
    /\ pc = "loop"
    /\ last.op = "MacroArg"
    /\ Followed
    /\ \E out \in {MacroArg_iteration(index, arg_tokens, level)} :
           Loop("MacroArg", last.entry, 1, out, After(out))

\* one test of the condition of `while` in MacroReplacement::parse and,
\* when it holds, one run of the body
MacroReplacement_iteration(ix, captured) ==
    IF peek_close_dot(ix)
    THEN Iterated(ix, Ok(captured), captured, ZeroLevel, "done")
    ELSE The({ IF ~r.res.ok
               THEN Iterated(r.index, r.res, captured, ZeroLevel, "error")
               ELSE Iterated(r.index, None, Append(captured, r.res.val[1]),
                             ZeroLevel, "loop")
               : r \in {parse(ix, read_token(ix))} })

\* let mut tokens = Vec::new();
MacroReplacementEnter ==
    /\ pc = "idle"
    /\ Loop("MacroReplacement", index, 1,
            Iterated(index, None, <<>>, ZeroLevel, "loop"), <<>>)

MacroReplacementIterate ==
    /\ pc = "loop"
    /\ last.op = "MacroReplacement"
    /\ Followed
    /\ \E out \in {MacroReplacement_iteration(index, arg_tokens)} :
           Loop("MacroReplacement", last.entry, 1, out, After(out))

\* lexer.parse() of a T that is n atoms; n = 0 is a T that parses nothing
\* and succeeds everywhere
T_parse(ix, n) ==
    parse(ix, RunScript([steps |-> [i \in 1..n |-> "atom"], verdict |-> "prop"],
                        ix))

\* let mut items = vec![lexer.parse()?];
MaybeRepeat_first(ix, n) ==
    The({ IF ~t.res.ok THEN Iterated(t.index, t.res, <<>>, ZeroLevel, "error")
          ELSE Iterated(t.index, None, t.reads, ZeroLevel, "loop")
          : t \in {T_parse(ix, n)} })

\* while let Some(item) = lexer.parse().ok() { items.push(item); }
MaybeRepeat_iteration(ix, n, items) ==
    The({ IF ~t.res.ok THEN Iterated(t.index, Ok(items), items, ZeroLevel, "done")
          ELSE Iterated(t.index, None, items \o t.reads, ZeroLevel, "loop")
          : t \in {ok(T_parse(ix, n))} })

MaybeRepeatEnter ==
    /\ pc = "idle"
    /\ \E n \in 0..MaxConsume :
           \E out \in {MaybeRepeat_first(index, n)} :
               Loop("MaybeRepeat", index, n, out, After(out))

MaybeRepeatIterate ==
    /\ pc = "loop"
    /\ last.op = "MaybeRepeat"
    /\ Followed
    /\ \E out \in {MaybeRepeat_iteration(index, last.consume, arg_tokens)} :
           Loop("MaybeRepeat", last.entry, last.consume, out, After(out))

NextLoop ==
    \/ MacroArgEnter
    \/ MacroArgIterate
    \/ MacroReplacementEnter
    \/ MacroReplacementIterate
    \/ MaybeRepeatEnter
    \/ MaybeRepeatIterate

\* a loop that has been entered keeps running: the program is sequential
SpecLoop == InitLoop /\ [][NextLoop]_vars /\ WF_vars(NextLoop)

----------------------------------------------------------------------------
(* Claims about the termination of the loops                                *)

Ended == pc \in {"done", "error", "panic"}

TokenLoop == last.op \in {"MacroArg", "MacroReplacement"}

\* the T of MaybeRepeat<T> consumes a token when it succeeds
Consuming == last.op = "MaybeRepeat" => last.consume >= 1

\* every iteration began where the one before ended and consumed n tokens
EachConsumes(n) ==
    /\ \A i \in 1..Len(hist) :
           /\ hist[i].from = (IF i = 1 THEN last.entry ELSE hist[i - 1].to)
           /\ hist[i].to = hist[i].from + n
    /\ index = last.entry + n * Len(hist)

\* no `)` followed by `.` begins at a token the loop has consumed
NoCloseDotBefore == \A j \in last.entry..(index - 1) : ~peek_close_dot(j)

LoopSteps ==
    /\ TokenLoop => EachConsumes(1)
    /\ last.op = "MacroReplacement" =>
           /\ NoCloseDotBefore
           /\ pc = "done" => peek_close_dot(index)
           /\ pc # "panic"
    /\ (TokenLoop /\ pc = "error") =>
           /\ index = Len(tokens)
           /\ ~last.ret.ok
           /\ last.ret.err.name = "UnexpectedEof"
    /\ (last.op = "MaybeRepeat" /\ last.consume >= 1) =>
           /\ EachConsumes(last.consume)
           /\ Len(hist) <= Len(tokens)

\* at the end of the stream the next test of the loop ends it with the error
EndsAtEof ==
    (pc = "loop" /\ TokenLoop /\ index = Len(tokens)) => pc' = "error"

\* C25: each iteration of MacroArg::parse and of MacroReplacement::parse
\* consumes exactly one token; MacroReplacement::parse stops before the
\* first `)` that is followed by `.`; at the end of the stream both loops
\* end with the error of the read; an iteration of MaybeRepeat<T>::parse
\* consumes what T consumes; and every loop that runs comes to an end,
\* MaybeRepeat<T> for a T whose successful parse consumes a token.
C25_LoopsTerminate ==
    /\ [](LoopSteps)
    /\ [][EndsAtEof]_vars
    /\ ((pc = "loop" /\ Consuming) ~> Ended)

\* MacroReplacement::parse has stopped after two iterations, before a `)`
\* followed by `.`
C25_Witness ==
    /\ last.op = "MacroReplacement"
    /\ pc = "done"
    /\ Len(hist) = 2
    /\ index = 2
    /\ tokens[3].kind = ")"
    /\ tokens[4].kind = "."

====
